---- MODULE Spec2Model ----
(***************************************************************************)
(* Login with per-account device limiting, the device administration       *)
(* endpoints and the video streaming proxy of the platform backend.        *)
(*                                                                         *)
(* JavaScript values are modelled as tagged records: Undefined, Num(n),    *)
(* Str(s) where s is a sequence of characters.  The document store is the  *)
(* `users`, `students` and `subscription` collections; every awaited store *)
(* call of a handler is one atomic step, followed by the synchronous code  *)
(* that runs until the next await.                                         *)
(***************************************************************************)
EXTENDS Integers, Sequences, FiniteSets, TLC

\* ------------------------------------------------------------------ bounds
MaxClock == 2          \* wall-clock ticks the model lets pass
TicksPerMinute == 2    \* clock ticks that fall into one formatted minute
MaxAllowed == 2        \* largest allowed_devices an admin asks for
MaxUploads == 2        \* files a row is given, one after the other
MaxRows == 2           \* video rows of the edit form

\* ------------------------------------------------------- JavaScript values
Undefined == [t |-> "undefined"]
Num(n) == [t |-> "number", v |-> n]
Str(s) == [t |-> "string", v |-> s]
NaN == [t |-> "NaN"]

IsString(x) == x.t = "string"
IsNumber(x) == x.t = "number"

Digits == {"0", "1", "2", "3", "4", "5", "6", "7", "8", "9"}

DigitVal(c) ==
  CASE c = "0" -> 0 [] c = "1" -> 1 [] c = "2" -> 2 [] c = "3" -> 3
    [] c = "4" -> 4 [] c = "5" -> 5 [] c = "6" -> 6 [] c = "7" -> 7
    [] c = "8" -> 8 [] c = "9" -> 9

RECURSIVE TrimLeft(_)
TrimLeft(s) == IF s # <<>> /\ Head(s) = " " THEN TrimLeft(Tail(s)) ELSE s

RECURSIVE TrimRight(_)
TrimRight(s) ==
  IF s # <<>> /\ s[Len(s)] = " " THEN TrimRight(SubSeq(s, 1, Len(s) - 1)) ELSE s

\* String.prototype.trim
Trim(s) == TrimRight(TrimLeft(s))

\* str.replace(/[$]/g, '')
StripDollar(s) == SelectSeq(s, LAMBDA c : c # "$")

\* /^\d+$/.test(s)
IsDigits(s) == s # <<>> /\ \A i \in 1..Len(s) : s[i] \in Digits

RECURSIVE DigitsValue(_, _)
DigitsValue(s, acc) ==
  IF s = <<>> \/ Head(s) \notin Digits THEN acc
  ELSE DigitsValue(Tail(s), acc * 10 + DigitVal(Head(s)))

\* parseInt(x, 10) for the values the handlers receive: a number is returned
\* as it is, a string yields its leading digits, NaN when there are none.
ParseInt(x) ==
  IF IsNumber(x) THEN x
  ELSE IF IsString(x)
    THEN LET s == TrimLeft(x.v)
         IN IF s # <<>> /\ Head(s) \in Digits THEN Num(DigitsValue(s, 0)) ELSE NaN
    ELSE NaN

\* JavaScript truthiness of the values used here
Truthy(x) ==
  CASE x.t = "undefined" -> FALSE
    [] x.t = "null" -> FALSE
    [] x.t = "NaN" -> FALSE
    [] x.t = "number" -> x.v # 0
    [] x.t = "string" -> x.v # <<>>
    [] OTHER -> TRUE

\* a || b
Or(a, b) == IF Truthy(a) THEN a ELSE b

\* --------------------------------------------------------------- formatting
\* formatDateTime: "DD/MM/YYYY at HH:MM AM/PM"; the seconds are dropped, so
\* two instants of the same minute format alike.
formatDateTime(date) == Str(<<date \div TicksPerMinute>>)


\* ----------------------------------------------------------- configuration
\* String.prototype.toLowerCase on the words a flag value is made of
LowerWord(w) == CASE w = "TRUE" -> "true" [] w = "FALSE" -> "false" [] OTHER -> w

toLowerCase(s) == [i \in 1..Len(s) |-> LowerWord(s[i])]

\* String(rawValue || '').toLowerCase().trim(), then the test for 'true' or '1'
FlagEnabled(rawValue) ==
  LET normalized == Trim(toLowerCase(Or(rawValue, Str(<<>>)).v))
  IN normalized = <<"true">> \/ normalized = <<"1">>

\* Values of SYSTEM_DEVICE_LIMITATIONS in env.config (Undefined: key absent)
EnvValues == {Str(<<"TRUE">>), Str(<<"false">>), Undefined}

\* --------------------------------------------------------------- data model
Roles == {"student", "assistant", "admin", "developer"}

UserKey == "u1"          \* _id of the user document
UserId == Num(1)         \* its id field

NoDoc == [_id |-> "none"]

NoLimitations == [allowed_devices |-> Undefined, last_login |-> Undefined, devices |-> <<>>]

DefaultAllowedDevices == 1

bcryptHash(password) == <<"bcrypt", password>>

\* bcrypt.compare(password, hash)
bcryptCompare(password, hash) == bcryptHash(password) = hash

\* new Date(stored): a stored date string becomes its instant, an unparseable
\* one becomes an Invalid Date whose getTime() is NaN.
NewDate(stored) == IF stored.t = "date" THEN Num(stored.ms) ELSE NaN

\* a >= b on getTime() values: every comparison with NaN is false
TimeGE(a, b) == IsNumber(a) /\ IsNumber(b) /\ a.v >= b.v

\* UAParser(userAgent).getResult(), for the user agents of the model
UAParser(userAgent) ==
  CASE userAgent = "Chrome/Windows" -> [browser |-> "Chrome", os |-> "Windows", device |-> ""]
    [] userAgent = "Safari/iPhone" -> [browser |-> "Mobile Safari", os |-> "iOS", device |-> "mobile"]
    [] OTHER -> [browser |-> "", os |-> "", device |-> ""]

\* a || b on plain strings ('' is falsy)
OrStr(a, b) == IF a # "" THEN a ELSE b

\* --------------------------------------------------------- login: pure part
NoRes == [status |-> 0, error |-> "", role |-> ""]

Reject(status, error) == [status |-> status, error |-> error, role |-> ""]

\* incomingDeviceId
incomingDeviceId(device_id) ==
  IF IsString(device_id) /\ Trim(device_id.v) # <<>>
  THEN Trim(device_id.v)
  ELSE <<"unknown-device">>

\* ip derived from x-forwarded-for / the socket
RequestIp(req) ==
  LET ipFromHeader == IF req.forwardedFor = <<>> THEN "" ELSE Head(req.forwardedFor)
  IN OrStr(ipFromHeader, OrStr(req.remoteAddress, "unknown"))

\* faulty variant of findIndex: no record is ever found
findIndexNever(devices, id) == 0

\* devices.findIndex(d => d && d.device_id === incomingDeviceId); 0 stands for -1
findIndex(devices, id) ==
  IF \E i \in 1..Len(devices) : devices[i].device_id = id
  THEN CHOOSE i \in 1..Len(devices) :
         /\ devices[i].device_id = id
         /\ \A j \in 1..(i - 1) : devices[j].device_id # id
  ELSE 0

\* the record pushed for a device that is not registered yet
NewDevice(req, nowFormatted) ==
  LET result == UAParser(req.userAgent)
  IN [device_id |-> incomingDeviceId(req.device_id),
      ip |-> RequestIp(req),
      browser |-> OrStr(result.browser, "Unknown"),
      os |-> OrStr(result.os, "Unknown"),
      device_type |-> OrStr(result.device, "desktop"),
      first_login |-> nowFormatted,
      last_login |-> nowFormatted]

\* faulty variant: the address and the first login are taken from the request as well
TouchDeviceRefreshed(d, req, nowFormatted) ==
  LET result == UAParser(req.userAgent)
  IN [d EXCEPT !.ip = RequestIp(req),
               !.browser = OrStr(d.browser, OrStr(result.browser, "Unknown")),
               !.os = OrStr(d.os, OrStr(result.os, "Unknown")),
               !.device_type = OrStr(d.device_type, OrStr(result.device, "desktop")),
               !.first_login = nowFormatted,
               !.last_login = nowFormatted]

\* the record that replaces a registered device on re-login
TouchDevice(d, req, nowFormatted) ==
  LET result == UAParser(req.userAgent)
  IN [d EXCEPT !.ip = OrStr(d.ip, RequestIp(req)),
               !.browser = OrStr(d.browser, OrStr(result.browser, "Unknown")),
               !.os = OrStr(d.os, OrStr(result.os, "Unknown")),
               !.device_type = OrStr(d.device_type, OrStr(result.device, "desktop")),
               !.last_login = nowFormatted]

\* faulty variant: the stored allowed_devices is not read
allowedDevicesDefault(existingLimitations) == DefaultAllowedDevices

\* allowedDevices
allowedDevices(existingLimitations) ==
  IF IsNumber(existingLimitations.allowed_devices)
  THEN existingLimitations.allowed_devices.v
  ELSE DefaultAllowedDevices

\* faulty variant: the test lets one device more in
LimitReachedAbove(devices, allowed) == Len(devices) > allowed

\* the capacity test of a device that is not registered yet
LimitReached(devices, allowed) == Len(devices) >= allowed

\* faulty variant: allowed_devices is not carried into the object that is written
UpdatedLimitationsWithoutCap(allowed, nowFormatted, devices) ==
  [allowed_devices |-> Undefined, last_login |-> nowFormatted, devices |-> devices]

\* updatedLimitations, the object that is written
UpdatedLimitations(allowed, nowFormatted, devices) ==
  [allowed_devices |-> Num(allowed), last_login |-> nowFormatted, devices |-> devices]

\* The device limitations block: the response when the login is blocked, or
\* the updatedLimitations to be written.
DeviceBlock(assistant, req, nowFormatted) ==
  LET existingLimitations == assistant.device_limitations
      allowed == allowedDevices(existingLimitations)
      devices == existingLimitations.devices
      existingIndex == findIndex(devices, incomingDeviceId(req.device_id))
  IN IF existingIndex = 0
     THEN IF LimitReached(devices, allowed)
          THEN [blocked |-> TRUE, updatedLimitations |-> NoLimitations]
          ELSE [blocked |-> FALSE,
                updatedLimitations |->
                  UpdatedLimitations(allowed, nowFormatted,
                                     Append(devices, NewDevice(req, nowFormatted)))]
     ELSE [blocked |-> FALSE,
           updatedLimitations |->
             UpdatedLimitations(allowed, nowFormatted,
                                [devices EXCEPT
                                   ![existingIndex] =
                                     TouchDevice(devices[existingIndex], req, nowFormatted)])]

\* -------------------------------------------------------------------- state
VARIABLES
  users,                \* users collection: _id -> document
  students,             \* students collection: the document with the user's id, or NoDoc
  subscription,         \* the subscription singleton, or NoDoc
  SUBSCRIPTION_ENABLED, \* read from the configuration when the login module loads
  envFile,              \* SYSTEM_DEVICE_LIMITATIONS in env.config, as it is now
  envConfig,            \* the same key as the device-admin modules loaded it
  processEnv,           \* process.env.SYSTEM_DEVICE_LIMITATIONS
  clock,                \* wall clock
  login,                \* login requests in flight: slot -> locals of the handler
  admin,                \* the device-admin request being answered, and its response
  monitor,              \* observer: a blocked login, then a raised cap, then the same login
  bucket,               \* the object store: object key -> object, or NoObject
  r2Configured,         \* whether the R2 settings were present when the module loaded
  stream,               \* the streaming request being served: locals of the handler
  minted,               \* observer: the keys the key-mint endpoint has returned
  proxy,                \* the proxy-upload request being served: locals of the handler
  row,                  \* a VideoInput row of the form: component state and refs
  form,                 \* the edit form: its fields, its errors, the last submit
  player                \* an R2VideoPlayer: props, state, refs, the video element

accountVars == <<users, students, subscription, SUBSCRIPTION_ENABLED, envFile, envConfig,
                 processEnv, clock, login, admin, monitor>>

mediaVars == <<bucket, r2Configured, stream>>

clientVars == <<minted, proxy, row, form, player>>

vars == <<accountVars, mediaVars, clientVars>>

Slots == {1, 2}

\* ------------------------------------------------------------ login requests
\* String(n) for the ids of the model
DigitChar(n) ==
  CASE n = 0 -> "0" [] n = 1 -> "1" [] n = 2 -> "2" [] n = 3 -> "3" [] n = 4 -> "4"
    [] n = 5 -> "5" [] n = 6 -> "6" [] n = 7 -> "7" [] n = 8 -> "8" [] n = 9 -> "9"

RECURSIVE NumToChars(_)
NumToChars(n) == IF n < 10 THEN <<DigitChar(n)>> ELSE NumToChars(n \div 10) \o <<DigitChar(n % 10)>>

\* safeIdAsNumber / safeIdAsString: the ids findOne is tried with, in order
SafeIds(assistant_id) ==
  IF IsNumber(assistant_id)
  THEN <<assistant_id, Str(NumToChars(assistant_id.v))>>
  ELSE LET idStr == Trim(StripDollar(assistant_id.v))
       IN IF IsDigits(idStr) THEN <<ParseInt(Str(idStr)), Str(idStr)>> ELSE <<Str(idStr)>>

\* db.collection('users').findOne({ id }): the first match, or NoDoc
findOne(collection, id) ==
  IF \E k \in DOMAIN collection : collection[k].id = id
  THEN collection[CHOOSE k \in DOMAIN collection : collection[k].id = id]
  ELSE NoDoc

RECURSIVE findFirst(_, _)
findFirst(collection, ids) ==
  IF ids = <<>> THEN NoDoc
  ELSE IF findOne(collection, Head(ids)) # NoDoc THEN findOne(collection, Head(ids))
  ELSE findFirst(collection, Tail(ids))

Clients ==
  { [device_id |-> Str(<<"A">>), forwardedFor |-> <<"10.0.0.1", "10.0.0.9">>,
     remoteAddress |-> "192.168.0.1", userAgent |-> "Chrome/Windows"],
    [device_id |-> Str(<<" ", "A", " ">>), forwardedFor |-> <<>>,
     remoteAddress |-> "192.168.0.2", userAgent |-> "Safari/iPhone"],
    [device_id |-> Str(<<"B">>), forwardedFor |-> <<"10.0.0.2">>,
     remoteAddress |-> "", userAgent |-> "Safari/iPhone"],
    [device_id |-> Undefined, forwardedFor |-> <<>>,
     remoteAddress |-> "", userAgent |-> ""] }

Request(method, assistant_id, password, c) ==
  [method |-> method, assistant_id |-> assistant_id, password |-> password,
   device_id |-> c.device_id, forwardedFor |-> c.forwardedFor,
   remoteAddress |-> c.remoteAddress, userAgent |-> c.userAgent]

Client1 == CHOOSE c \in Clients : c.device_id = Str(<<"A">>)

\* every client with valid credentials, and one request for each way the
\* credentials can be wrong
LoginRequests ==
  {Request("POST", i, Str(<<"secret">>), c) : i \in {Num(1)}, c \in Clients}
    \cup {Request("POST", Str(<<"$", "1", " ">>), Str(<<"secret">>), Client1),
          Request("POST", Str(<<"7">>), Str(<<"secret">>), Client1),
          Request("POST", Num(1), Str(<<"guess">>), Client1),
          Request("POST", Num(1), Undefined, Client1),
          Request("GET", Num(1), Str(<<"secret">>), Client1)}

NoReq == [method |-> "none"]

NoAdmin == [family |-> "none"]

Idle ==
  [pc |-> "idle", req |-> NoReq, assistant |-> NoDoc, subscription |-> NoDoc,
   now |-> 0, limiting |-> "unread", updatedLimitations |-> NoLimitations,
   res |-> NoRes, writes |-> <<>>, overwritten |-> NoLimitations,
   stored |-> NoLimitations]

Respond(l, res) == [l EXCEPT !.pc = "done", !.res = res]

\* faulty variant: signing the token throws after the write
SuccessThrows(l) == Respond(l, Reject(500, "Internal server error"))

Success(l) == Respond(l, [status |-> 200, error |-> "", role |-> l.assistant.role])

\* faulty variant: the developer role is not exempt
DeviceStageAll(l, enabled, now) ==
  IF enabled
  THEN LET b == DeviceBlock(l.assistant, l.req, formatDateTime(now))
       IN IF b.blocked
          THEN Respond([l EXCEPT !.limiting = "on"], Reject(403, "device_limit_reached"))
          ELSE [l EXCEPT !.limiting = "on", !.pc = "updateOne",
                         !.updatedLimitations = b.updatedLimitations]
  ELSE Success([l EXCEPT !.limiting = "off"])

\* lines 810-907 up to the updateOne: `enabled` is what isDeviceLimitationsEnabled()
\* returns and `now` the clock when the block runs
DeviceStage(l, enabled, now) ==
  IF enabled /\ l.assistant.role # "developer"
  THEN LET b == DeviceBlock(l.assistant, l.req, formatDateTime(now))
       IN IF b.blocked
          THEN Respond([l EXCEPT !.limiting = "on"], Reject(403, "device_limit_reached"))
          ELSE [l EXCEPT !.limiting = "on", !.pc = "updateOne",
                         !.updatedLimitations = b.updatedLimitations]
  ELSE Success([l EXCEPT !.limiting = IF enabled THEN "on" ELSE "off"])

\* lines 783-806: the role gate on the subscription read at l.now
SubscriptionGate(l, enabled, now) ==
  LET sub == l.subscription
      expirationDate == IF Truthy(sub.date_of_expiration)
                        THEN NewDate(sub.date_of_expiration) ELSE Undefined
      privileged == l.assistant.role = "developer" \/ l.assistant.role = "student"
  IN IF ~sub.active
     THEN IF ~privileged
          THEN Respond(l, Reject(403, "subscription_inactive"))
          ELSE DeviceStage(l, enabled, now)
     ELSE IF expirationDate # Undefined /\ TimeGE(Num(l.now), expirationDate) /\ ~privileged
          THEN Respond(l, Reject(403, "subscription_expired"))
          ELSE DeviceStage(l, enabled, now)

\* lines 752-781: what follows the subscription findOne
AfterSubscription(l, doc, enabled, now) ==
  IF doc = NoDoc THEN DeviceStage(l, enabled, now)
  ELSE LET expirationDate == IF Truthy(doc.date_of_expiration)
                             THEN NewDate(doc.date_of_expiration) ELSE Undefined
           read == [l EXCEPT !.subscription = doc, !.now = now]
       IN IF expirationDate # Undefined /\ doc.active /\ TimeGE(Num(now), expirationDate)
          THEN [read EXCEPT !.pc = "deactivate"]
          ELSE SubscriptionGate(read, enabled, now)

\* faulty variant: the subscription is looked at before the account state
AccountStageLate(l, accountState, subscriptionEnabled, enabled, now) ==
  IF subscriptionEnabled
  THEN [l EXCEPT !.pc = "findSubscription"]
  ELSE IF accountState # "Activated"
       THEN IF l.assistant.role = "student"
            THEN Respond(l, Reject(403, "student_account_deactivated"))
            ELSE Respond(l, Reject(403, "account_deactivated"))
       ELSE DeviceStage(l, enabled, now)

\* lines 740-751: the account state gate
AccountStage(l, accountState, subscriptionEnabled, enabled, now) ==
  IF accountState # "Activated"
  THEN IF l.assistant.role = "student"
       THEN Respond(l, Reject(403, "student_account_deactivated"))
       ELSE Respond(l, Reject(403, "account_deactivated"))
  ELSE IF subscriptionEnabled
       THEN [l EXCEPT !.pc = "findSubscription"]
       ELSE DeviceStage(l, enabled, now)

\* lines 713-738: what follows the users findOne
AfterFindUser(l, doc, subscriptionEnabled, enabled, now) ==
  IF doc = NoDoc THEN Respond(l, Reject(401, "user_not_found"))
  ELSE IF ~bcryptCompare(l.req.password, doc.password)
       THEN Respond(l, Reject(401, "wrong_password"))
       ELSE LET found == [l EXCEPT !.assistant = doc]
            IN IF doc.role = "student"
               THEN [found EXCEPT !.pc = "findStudent"]
               ELSE AccountStage(found, OrStr(doc.account_state, "Deactivated"),
                                 subscriptionEnabled, enabled, now)

\* lines 659-671: request validation
Validate(req) ==
  IF req.method # "POST" THEN Reject(405, "Method not allowed")
  ELSE IF ~Truthy(req.assistant_id) \/ ~Truthy(req.password)
       THEN Reject(400, "assistant_id and password required")
  ELSE IF ~IsString(req.assistant_id) /\ ~IsNumber(req.assistant_id)
       THEN Reject(400, "Invalid assistant_id")
  ELSE IF ~IsString(req.password) THEN Reject(400, "Invalid password")
  ELSE NoRes

\* ------------------------------------------------------------ store updates
\* faulty variant: the new record is pushed onto the stored list
PushLimitations(collection, _id, updatedLimitations) ==
  [k \in DOMAIN collection |->
     IF collection[k]._id = _id
     THEN [collection[k] EXCEPT
             !.device_limitations.devices =
               @ \o <<updatedLimitations.devices[Len(updatedLimitations.devices)]>>]
     ELSE collection[k]]

\* updateOne({ _id }, { $set: { device_limitations: updatedLimitations } })
SetLimitations(collection, _id, updatedLimitations) ==
  [k \in DOMAIN collection |->
     IF collection[k]._id = _id
     THEN [collection[k] EXCEPT !.device_limitations = updatedLimitations]
     ELSE collection[k]]

\* faulty variant: the update leaves the stored subscription as it was
DeactivatedNot(doc) == doc

\* updateOne({}, { $set: { active: false, ..., date_of_expiration: null, ... } })
Deactivated(doc) ==
  IF doc = NoDoc THEN NoDoc
  ELSE [doc EXCEPT !.active = FALSE, !.date_of_expiration = Undefined]

\* isDeviceLimitationsEnabled() of the login module: env.config is read again
isDeviceLimitationsEnabled(file, env) == FlagEnabled(Or(file, env))

\* ----------------------------------------------------------------- observer
\* The observer follows one account through: a login blocked by the device
\* limit ("blocked"), then, with nothing in between, an accepted PATCH that
\* leaves allowed_devices above the number of registered devices ("raised"),
\* then the blocked request sent again ("again"), and its answer ("answered").
MonitorOff == [stage |-> "off", req |-> NoReq]

\* a login handler moved from l to m
ObserveLogin(mon, l, m) ==
  IF l.pc = "idle" /\ mon.stage = "raised" /\ m.req = mon.req
  THEN [mon EXCEPT !.stage = IF m.pc = "done" THEN "answered" ELSE "again"]
  ELSE IF l.pc # "idle" /\ mon.stage = "again"
  THEN [mon EXCEPT !.stage = IF m.pc = "done" THEN "answered" ELSE "again"]
  ELSE IF m.pc = "done" /\ m.res.error = "device_limit_reached"
  THEN [stage |-> "blocked", req |-> m.req]
  ELSE MonitorOff

\* a device-admin request was answered with res and took the account's
\* device_limitations from `before` to `after`
ObserveAdmin(mon, req, res, before, after, inFlight) ==
  IF /\ mon.stage = "blocked"
     /\ ~inFlight
     /\ req.method = "PATCH"
     /\ res.status = 200
     /\ after.devices = before.devices
     /\ IsNumber(after.allowed_devices)
     /\ after.allowed_devices.v > Len(after.devices)
  THEN [mon EXCEPT !.stage = "raised"]
  ELSE MonitorOff

\* -------------------------------------------------------------- login steps
InFlight(l) == l.pc \notin {"idle", "done"}

\* No response is being handed back.  Handing a response back and closing the
\* connection (the finally block) touches no shared state, so it is taken
\* before any other step.
Quiet == admin = NoAdmin /\ \A s \in Slots : login[s].pc # "done"

\* A request arrives and passes validation, then users.findOne by number and
\* by string (ids never change in between) and what follows it.  Nothing
\* shared is read before the findOne.  `alone` asks that no other login is
\* in flight.
LoginFindUser(s, req, alone) ==
  /\ Quiet
  /\ login[s].pc = "idle"
  /\ alone => \A t \in Slots : ~InFlight(login[t])
  /\ login' = [login EXCEPT ![s] =
                 IF Validate(req) # NoRes
                 THEN Respond([Idle EXCEPT !.req = req], Validate(req))
                 ELSE AfterFindUser([Idle EXCEPT !.req = req],
                                    findFirst(users, SafeIds(req.assistant_id)),
                                    SUBSCRIPTION_ENABLED,
                                    isDeviceLimitationsEnabled(envFile, processEnv), clock)]
  /\ monitor' = ObserveLogin(monitor, login[s], login'[s])
  /\ UNCHANGED <<mediaVars, clientVars>>
  /\ UNCHANGED <<users, students, subscription, SUBSCRIPTION_ENABLED, envFile,
                 envConfig, processEnv, clock, admin>>

\* students.findOne({ id: assistant.id })
LoginFindStudent(s) ==
  /\ Quiet
  /\ login[s].pc = "findStudent"
  /\ LET student == IF students # NoDoc /\ students.id = login[s].assistant.id
                    THEN students ELSE NoDoc
         accountState == IF student # NoDoc
                         THEN OrStr(student.account_state, "Deactivated")
                         ELSE "Deactivated"
     IN login' = [login EXCEPT ![s] =
                    AccountStage(login[s], accountState, SUBSCRIPTION_ENABLED,
                                 isDeviceLimitationsEnabled(envFile, processEnv), clock)]
  /\ monitor' = ObserveLogin(monitor, login[s], login'[s])
  /\ UNCHANGED <<mediaVars, clientVars>>
  /\ UNCHANGED <<users, students, subscription, SUBSCRIPTION_ENABLED, envFile,
                 envConfig, processEnv, clock, admin>>

\* subscription.findOne({})
LoginFindSubscription(s) ==
  /\ Quiet
  /\ login[s].pc = "findSubscription"
  /\ login' = [login EXCEPT ![s] =
                 AfterSubscription(login[s], subscription,
                                   isDeviceLimitationsEnabled(envFile, processEnv), clock)]
  /\ monitor' = ObserveLogin(monitor, login[s], login'[s])
  /\ UNCHANGED <<mediaVars, clientVars>>
  /\ UNCHANGED <<users, students, subscription, SUBSCRIPTION_ENABLED, envFile,
                 envConfig, processEnv, clock, admin>>

\* subscription.updateOne({}, { $set: { active: false, ... } }), then the role gate
LoginDeactivate(s) ==
  /\ Quiet
  /\ login[s].pc = "deactivate"
  /\ subscription' = Deactivated(subscription)
  /\ login' = [login EXCEPT ![s] =
                 SubscriptionGate(
                   [login[s] EXCEPT !.subscription.active = FALSE,
                                    !.writes = Append(@, "subscription")],
                   isDeviceLimitationsEnabled(envFile, processEnv), clock)]
  /\ monitor' = ObserveLogin(monitor, login[s], login'[s])
  /\ UNCHANGED <<mediaVars, clientVars>>
  /\ UNCHANGED <<users, students, SUBSCRIPTION_ENABLED, envFile, envConfig,
                 processEnv, clock, admin>>

\* users.updateOne({ _id }, { $set: { device_limitations } }), then the token
LoginUpdateOne(s) ==
  /\ Quiet
  /\ login[s].pc = "updateOne"
  /\ users' = SetLimitations(users, login[s].assistant._id, login[s].updatedLimitations)
  /\ login' = [login EXCEPT ![s] =
                 Success([login[s] EXCEPT !.writes = Append(@, "users"),
                                          !.overwritten = users[UserKey].device_limitations,
                                          !.stored = users'[UserKey].device_limitations])]
  /\ monitor' = ObserveLogin(monitor, login[s], login'[s])
  /\ UNCHANGED <<mediaVars, clientVars>>
  /\ UNCHANGED <<students, subscription, SUBSCRIPTION_ENABLED, envFile, envConfig,
                 processEnv, clock, admin>>

\* the response is sent and the connection closed
LoginClose(s) ==
  /\ login[s].pc = "done"
  /\ login' = [login EXCEPT ![s] = Idle]
  /\ UNCHANGED monitor
  /\ UNCHANGED <<mediaVars, clientVars>>
  /\ UNCHANGED <<users, students, subscription, SUBSCRIPTION_ENABLED, envFile,
                 envConfig, processEnv, clock, admin>>

\* ------------------------------------------------------------- environment
Tick ==
  /\ Quiet
  /\ clock < MaxClock
  /\ clock' = clock + 1
  /\ UNCHANGED <<mediaVars, clientVars>>
  /\ UNCHANGED <<users, students, subscription, SUBSCRIPTION_ENABLED, envFile,
                 envConfig, processEnv, login, admin, monitor>>

\* an operator edits SYSTEM_DEVICE_LIMITATIONS in env.config
ConfigChange ==
  /\ Quiet
  /\ \E v \in EnvValues \ {envFile} : envFile' = v
  /\ UNCHANGED <<mediaVars, clientVars>>
  /\ UNCHANGED <<users, students, subscription, SUBSCRIPTION_ENABLED, envConfig,
                 processEnv, clock, login, admin, monitor>>

\* ------------------------------------------------------ device administration
\* isDeviceLimitationsEnabled() of students/devices.js and assistants/devices.js:
\* envConfig was loaded when the module was loaded
isDeviceLimitationsEnabledAdmin(config, env) == FlagEnabled(Or(Or(config, env), Str(<<>>)))

\* faulty variant of AdminRoles: a student is let in as well
AdminRolesWithStudent == {"admin", "developer", "assistant", "student"}

AdminRoles == {"admin", "developer", "assistant"}

\* roles of the documents each endpoint's filter selects
FamilyRoles(family) == IF family = "students" THEN {"student"} ELSE {"assistant", "admin"}

\* the ids the filter accepts: parseInt(id) for students; for assistants the
\* number, { $in: [numericId, idStr] } or the string
IdQuery(family, id) ==
  IF family = "students" THEN {ParseInt(id)}
  ELSE IF IsNumber(id) THEN {id}
  ELSE LET idStr == Trim(StripDollar(id.v))
       IN IF IsDigits(idStr) THEN {ParseInt(Str(idStr)), Str(idStr)} ELSE {Str(idStr)}

\* the id check each endpoint makes before it builds the filter
InvalidId(family, id) ==
  IF family = "students" THEN ~Truthy(ParseInt(id)) ELSE ~Truthy(id)

Matches(doc, ids, roles) == doc.id \in ids /\ doc.role \in roles

\* updateOne(filter, update): the first matching document is updated;
\* updated[k] is document k with the update applied
UpdateFirst(collection, ids, roles, updated) ==
  IF \E k \in DOMAIN collection : Matches(collection[k], ids, roles)
  THEN LET k0 == CHOOSE k \in DOMAIN collection : Matches(collection[k], ids, roles)
       IN [collection EXCEPT ![k0] = updated[k0]]
  ELSE collection

\* faulty variant: the devices beyond the new ceiling are dropped
SetAllowedEvicting(doc, allowed) ==
  [doc EXCEPT !.device_limitations.allowed_devices = Num(allowed),
              !.device_limitations.devices =
                 IF Len(@) > allowed THEN SubSeq(@, 1, allowed) ELSE @]

\* { $set: { 'device_limitations.allowed_devices': allowed } }
SetAllowed(doc, allowed) ==
  [doc EXCEPT !.device_limitations.allowed_devices = Num(allowed)]

\* faulty variant: splice(indexOf(device_id), 1), which removes the last record when
\* the device is not in the list
PullSplice(devices, device_id) ==
  IF \E i \in 1..Len(devices) : devices[i].device_id = device_id
  THEN SelectSeq(devices, LAMBDA d : d.device_id # device_id)
  ELSE SubSeq(devices, 1, Len(devices) - 1)

\* { $pull: { 'device_limitations.devices': { device_id } } }
Pull(devices, device_id) == SelectSeq(devices, LAMBDA d : d.device_id # device_id)

PullDevice(doc, device_id) ==
  [doc EXCEPT !.device_limitations.devices = Pull(@, device_id)]

\* rows of the GET response (search and pagination left out)
Rows(collection, roles) ==
  {[id |-> collection[k].id,
    allowed_devices |-> allowedDevices(collection[k].device_limitations),
    devices |-> collection[k].device_limitations.devices] :
      k \in {j \in DOMAIN collection : collection[j].role \in roles}}

AdminRes(status, error) == [status |-> status, error |-> error, data |-> {}]

\* The handler, from the flag check to the response: the response and the
\* users collection it leaves.
AdminHandler(family, req, collection, enabled) ==
  LET same(res) == [res |-> res, users |-> collection]
      auth == req.auth
      allowed == ParseInt(req.allowed_devices)
  IN IF ~enabled THEN same(AdminRes(400, "device_limitations_disabled"))
     ELSE IF auth.outcome = "throws" THEN same(AdminRes(500, "internal_server_error"))
     ELSE IF auth.outcome = "none" \/ auth.role \notin AdminRoles
          THEN same(AdminRes(403, "forbidden"))
     ELSE IF req.method = "GET"
          THEN same([status |-> 200, error |-> "", data |-> Rows(collection, FamilyRoles(family))])
     ELSE IF req.method = "PATCH"
          THEN IF InvalidId(family, req.id) THEN same(AdminRes(400, "invalid_id"))
               ELSE IF ~IsNumber(allowed) \/ allowed.v <= 0
                    THEN same(AdminRes(400, "invalid_allowed_devices"))
               ELSE [res |-> AdminRes(200, ""),
                     users |-> UpdateFirst(collection, IdQuery(family, req.id),
                                           FamilyRoles(family),
                                           [k \in DOMAIN collection |->
                                              SetAllowed(collection[k], allowed.v)])]
     ELSE IF req.method = "DELETE"
          THEN IF InvalidId(family, req.id) \/ ~Truthy(req.device_id)
               THEN same(AdminRes(400, "invalid_parameters"))
               ELSE [res |-> AdminRes(200, ""),
                     users |-> UpdateFirst(collection, IdQuery(family, req.id),
                                           FamilyRoles(family),
                                           [k \in DOMAIN collection |->
                                              PullDevice(collection[k], req.device_id.v)])]
     ELSE same(AdminRes(405, "Method not allowed"))

Families == {"students", "assistants"}

Authorized == [outcome |-> "user", role |-> "admin"]

\* what authMiddleware(req) gives: the user of the session, nothing, or an
\* exception
AuthOutcomes ==
  {[outcome |-> "user", role |-> r] : r \in Roles}
    \cup {[outcome |-> "none", role |-> ""], [outcome |-> "throws", role |-> ""]}

AllowedValues == {Num(n) : n \in 0..MaxAllowed} \cup {Str(<<"2", "x">>), Undefined}

DeviceIdValues == {Str(<<"A">>), Str(<<"B">>), Str(<<"unknown-device">>), Undefined}

AdminReq(method, auth, id, allowed_devices, device_id) ==
  [method |-> method, auth |-> auth, id |-> id,
   allowed_devices |-> allowed_devices, device_id |-> device_id]

\* requests of an authorized administrator
AdminRequests ==
  {AdminReq("PATCH", Authorized, Str(<<"1">>), a, Undefined) : a \in AllowedValues}
    \cup {AdminReq("DELETE", Authorized, Str(<<"1">>), Undefined, d) : d \in DeviceIdValues}
    \cup {AdminReq("PATCH", Authorized, Str(<<"7">>), Num(MaxAllowed), Undefined),
          AdminReq("DELETE", Authorized, Undefined, Undefined, Str(<<"A">>)),
          AdminReq("GET", Authorized, Undefined, Undefined, Undefined),
          AdminReq("POST", Authorized, Undefined, Undefined, Undefined)}

AdminRequest(family, req) ==
  /\ Quiet
  /\ LET out == AdminHandler(family, req, users,
                             isDeviceLimitationsEnabledAdmin(envConfig, processEnv))
     IN /\ users' = out.users
        /\ admin' = [family |-> family, req |-> req, res |-> out.res]
        /\ monitor' = ObserveAdmin(monitor, req, out.res,
                                   users[UserKey].device_limitations,
                                   out.users[UserKey].device_limitations,
                                   \E s \in Slots : InFlight(login[s]))
  /\ UNCHANGED <<mediaVars, clientVars>>
  /\ UNCHANGED <<students, subscription, SUBSCRIPTION_ENABLED, envFile, envConfig,
                 processEnv, clock, login>>

\* the response is sent and the connection closed
AdminClose ==
  /\ admin # NoAdmin
  /\ admin' = NoAdmin
  /\ UNCHANGED <<mediaVars, clientVars>>
  /\ UNCHANGED <<users, students, subscription, SUBSCRIPTION_ENABLED, envFile,
                 envConfig, processEnv, clock, login, monitor>>

\* ---------------------------------------------------------- video streaming
MaxSize == 10          \* largest size of the small objects, in bytes

ChunkBytes == 5 * 1024 * 1024

\* object sizes: the small ones and one that is larger than a chunk
Sizes == (0..MaxSize) \cup {ChunkBytes + MaxSize}

\* numbers written in Range headers
RangeNumbers ==
  (0..(MaxSize + 1)) \cup {ChunkBytes - 1, ChunkBytes, ChunkBytes + MaxSize - 1, ChunkBytes + MaxSize}

NoObject == [ContentLength |-> -1, ContentType |-> ""]

\* key.join('/')
RECURSIVE join(_)
join(key) ==
  IF Len(key) <= 1 THEN key ELSE <<Head(key), "/">> \o join(Tail(key))

KeyA == <<"videos", "a.mp4">>
KeyB == <<"videos", "b.MOV">>
KeyC == <<"c">>

ObjectKeys == {join(KeyA), join(KeyB), join(KeyC)}

\* the extension a lower-cased key ends with, among those of MIME_TYPES
LowerExtension(objectKey) ==
  LET name == objectKey[Len(objectKey)]
  IN CASE name = "a.mp4" -> ".mp4" [] name = "b.MOV" -> ".mov" [] OTHER -> ""

\* getContentType
getContentType(objectKey) ==
  LET ext == LowerExtension(objectKey)
  IN CASE ext = ".mp4" -> "video/mp4"
       [] ext = ".webm" -> "video/webm"
       [] ext = ".ogg" -> "video/ogg"
       [] ext = ".ogv" -> "video/ogg"
       [] ext = ".mov" -> "video/quicktime"
       [] ext = ".avi" -> "video/x-msvideo"
       [] ext = ".mkv" -> "video/x-matroska"
       [] ext = ".m4v" -> "video/x-m4v"
       [] OTHER -> "application/octet-stream"

\* A Range header is text: what stands before the first number, the digits
\* before and after the dash, and what follows.  /^bytes=(\d*)-(\d*)$/
RangeHeader(unit, first, last, rest) ==
  [t |-> "string", unit |-> unit, first |-> first, last |-> last, rest |-> rest]

AllDigits(s) == \A i \in 1..Len(s) : s[i] \in Digits

match(rangeHeader) ==
  rangeHeader.unit = "bytes=" /\ AllDigits(rangeHeader.first)
    /\ AllDigits(rangeHeader.last) /\ rangeHeader.rest = ""

Min(a, b) == IF a <= b THEN a ELSE b
Max(a, b) == IF a >= b THEN a ELSE b

\* faulty variant: the start of a suffix range is not floored at 0
ParseRangeUnfloored(rangeHeader, totalSize) ==
  LET first == rangeHeader.first
      last == rangeHeader.last
  IN IF first # <<>> /\ last # <<>>
     THEN [ok |-> TRUE, start |-> DigitsValue(first, 0), end |-> DigitsValue(last, 0)]
     ELSE IF first # <<>>
     THEN [ok |-> TRUE, start |-> DigitsValue(first, 0),
           end |-> Min(DigitsValue(first, 0) + ChunkBytes - 1, totalSize - 1)]
     ELSE IF last # <<>>
     THEN [ok |-> TRUE, start |-> totalSize - DigitsValue(last, 0), end |-> totalSize - 1]
     ELSE [ok |-> FALSE, start |-> 0, end |-> 0]

\* lines 140-158: start and end of a header that matches; none for "bytes=-"
ParseRange(rangeHeader, totalSize) ==
  LET first == rangeHeader.first
      last == rangeHeader.last
  IN IF first # <<>> /\ last # <<>>
     THEN [ok |-> TRUE, start |-> DigitsValue(first, 0), end |-> DigitsValue(last, 0)]
     ELSE IF first # <<>>
     THEN [ok |-> TRUE, start |-> DigitsValue(first, 0),
           end |-> Min(DigitsValue(first, 0) + ChunkBytes - 1, totalSize - 1)]
     ELSE IF last # <<>>
     THEN [ok |-> TRUE, start |-> Max(0, totalSize - DigitsValue(last, 0)),
           end |-> totalSize - 1]
     ELSE [ok |-> FALSE, start |-> 0, end |-> 0]

\* faulty variant: a range that starts or ends right at the size is let through
OutOfBoundsAbove(start, end, totalSize) == start > totalSize \/ end > totalSize

\* line 159: the bounds check
OutOfBounds(start, end, totalSize) == start >= totalSize \/ end >= totalSize

NoHeaders == [ContentType |-> "", ContentLength |-> -1, ContentRange |-> <<>>]

StreamRes(status, error) == [status |-> status, error |-> error, headers |-> NoHeaders]

\* 416 with Content-Range: bytes */totalSize
Unsatisfiable(totalSize) ==
  [status |-> 416, error |-> "",
   headers |-> [NoHeaders EXCEPT !.ContentRange = <<"bytes", "*", totalSize>>]]

StreamIdle ==
  [pc |-> "idle", req |-> NoReq, objectKey |-> <<>>, totalSize |-> -1, contentType |-> "",
   start |-> -1, end |-> -1, calls |-> <<>>, outcomes |-> <<>>, res |-> StreamRes(0, ""),
   body |-> "none"]

StreamRespond(l, res) == [l EXCEPT !.pc = "done", !.res = res]

\* lines 88-110: what the handler answers before it calls the object store
StreamValidate(req, configured) ==
  IF req.method # "GET" /\ req.method # "HEAD" THEN StreamRes(405, "Method not allowed")
  ELSE IF req.auth.outcome = "throws" THEN StreamRes(401, "Unauthorized")
  ELSE IF ~configured THEN StreamRes(500, "R2 configuration is missing")
  ELSE IF req.key = <<>> THEN StreamRes(400, "Video key is required")
  ELSE StreamRes(0, "")

\* an answer of the object store: the object, NotFound, or another error
StoreOutcomes(object) ==
  (IF object = NoObject THEN {[name |-> "NotFound", object |-> NoObject]}
   ELSE {[name |-> "ok", object |-> object]})
    \cup {[name |-> "Error", object |-> NoObject]}

\* lines 121-172: what follows the HeadObject answer
AfterHead(l, out) ==
  IF out.name = "NotFound" THEN StreamRespond(l, StreamRes(404, "Video not found"))
  ELSE IF out.name = "Error" THEN StreamRespond(l, StreamRes(500, "Failed to stream video"))
  ELSE LET totalSize == out.object.ContentLength
           contentType == IF out.object.ContentType # "" THEN out.object.ContentType
                          ELSE getContentType(l.objectKey)
           range == ParseRange(l.req.range, totalSize)
           known == [l EXCEPT !.totalSize = totalSize, !.contentType = contentType]
       IN IF ~match(l.req.range) \/ ~range.ok
          THEN StreamRespond(known, Unsatisfiable(totalSize))
          ELSE IF OutOfBounds(range.start, range.end, totalSize)
          THEN StreamRespond([known EXCEPT !.start = range.start, !.end = range.end],
                             Unsatisfiable(totalSize))
          ELSE [known EXCEPT !.pc = "get", !.start = range.start, !.end = range.end,
                             !.calls = Append(@, <<"GetObject", range.start, range.end>>)]

\* faulty variant: the length is counted without the last byte
AfterRangedGetShort(l, out) ==
  IF out.name # "ok" THEN StreamRespond(l, StreamRes(500, "Failed to stream video"))
  ELSE [StreamRespond(l,
          [status |-> 206, error |-> "",
           headers |-> [ContentType |-> l.contentType,
                        ContentLength |-> l.end - l.start,
                        ContentRange |-> <<"bytes", l.start, l.end, l.totalSize>>]])
        EXCEPT !.body = IF l.req.method = "HEAD" THEN "none" ELSE "piped"]

\* lines 173-196: what follows the answer to the ranged GetObject
AfterRangedGet(l, out) ==
  IF out.name # "ok" THEN StreamRespond(l, StreamRes(500, "Failed to stream video"))
  ELSE [StreamRespond(l,
          [status |-> 206, error |-> "",
           headers |-> [ContentType |-> l.contentType,
                        ContentLength |-> l.end - l.start + 1,
                        ContentRange |-> <<"bytes", l.start, l.end, l.totalSize>>]])
        EXCEPT !.body = IF l.req.method = "HEAD" THEN "none" ELSE "piped"]

\* lines 198-232: what follows the answer to the full GetObject
AfterFullGet(l, out) ==
  IF out.name = "NotFound" THEN StreamRespond(l, StreamRes(404, "Video not found"))
  ELSE IF out.name = "Error" THEN StreamRespond(l, StreamRes(500, "Failed to stream video"))
  ELSE [StreamRespond(l,
          [status |-> 200, error |-> "",
           headers |-> [ContentType |-> IF out.object.ContentType # ""
                                         THEN out.object.ContentType
                                         ELSE getContentType(l.objectKey),
                        ContentLength |-> out.object.ContentLength,
                        ContentRange |-> <<>>]])
        EXCEPT !.body = IF l.req.method = "HEAD" THEN "none" ELSE "piped"]

StreamReq(method, auth, key, range) ==
  [method |-> method, auth |-> auth, key |-> key, range |-> range]

DigitStrings == {<<>>, <<"0", "5">>} \cup {NumToChars(n) : n \in RangeNumbers}

\* every "bytes=first-last" header for KeyA, and one request for each other case
StreamRequests ==
  {StreamReq("GET", Authorized, KeyA, RangeHeader("bytes=", f, l, "")) :
     f \in DigitStrings, l \in DigitStrings}
    \cup {StreamReq(m, a, k, r) :
            m \in {"GET", "HEAD"}, a \in {Authorized, [outcome |-> "none", role |-> ""]},
            k \in {KeyA, KeyB}, r \in {Undefined, RangeHeader("bytes=", <<"0">>, <<"0">>, "")}}
    \cup {StreamReq("GET", Authorized, KeyA, RangeHeader("items=", <<"0">>, <<"1">>, "")),
          StreamReq("GET", Authorized, KeyA, RangeHeader("bytes=", <<"0">>, <<"1">>, ",3-4")),
          StreamReq("GET", Authorized, KeyC, RangeHeader("bytes=", <<>>, <<"1">>, "")),
          StreamReq("GET", Authorized, <<>>, Undefined),
          StreamReq("GET", [outcome |-> "throws", role |-> ""], KeyA, Undefined),
          StreamReq("POST", Authorized, KeyA, Undefined)}

\* A request arrives; when it passes the checks the first call goes to the
\* object store (HeadObject for a Range request, GetObject otherwise).
StreamRequest(req) ==
  /\ stream.pc = "idle"
  /\ stream' =
       LET l == [StreamIdle EXCEPT !.req = req]
       IN IF StreamValidate(req, r2Configured).status # 0
          THEN StreamRespond(l, StreamValidate(req, r2Configured))
          ELSE IF req.range # Undefined
          THEN [l EXCEPT !.pc = "head", !.objectKey = join(req.key),
                         !.calls = <<<<"HeadObject">>>>]
          ELSE [l EXCEPT !.pc = "getFull", !.objectKey = join(req.key),
                         !.calls = <<<<"GetObject">>>>]
  /\ UNCHANGED <<bucket, r2Configured>>
  /\ UNCHANGED <<accountVars, clientVars>>

\* the object store answers the HeadObject
StreamHead ==
  /\ stream.pc = "head"
  /\ \E out \in StoreOutcomes(bucket[stream.objectKey]) :
       stream' = AfterHead([stream EXCEPT !.outcomes = Append(@, out.name)], out)
  /\ UNCHANGED <<bucket, r2Configured>>
  /\ UNCHANGED <<accountVars, clientVars>>

\* the object store answers the ranged GetObject
StreamRangedGet ==
  /\ stream.pc = "get"
  /\ \E out \in StoreOutcomes(bucket[stream.objectKey]) :
       stream' = AfterRangedGet([stream EXCEPT !.outcomes = Append(@, out.name)], out)
  /\ UNCHANGED <<bucket, r2Configured>>
  /\ UNCHANGED <<accountVars, clientVars>>

\* the object store answers the full GetObject
StreamFullGet ==
  /\ stream.pc = "getFull"
  /\ \E out \in StoreOutcomes(bucket[stream.objectKey]) :
       stream' = AfterFullGet([stream EXCEPT !.outcomes = Append(@, out.name)], out)
  /\ UNCHANGED <<bucket, r2Configured>>
  /\ UNCHANGED <<accountVars, clientVars>>

\* the body is piped to the client, or the stream fails and the response ends
StreamPipe ==
  /\ stream.pc = "done"
  /\ stream.body = "piped"
  /\ \E b \in {"complete", "ended"} : stream' = [stream EXCEPT !.body = b]
  /\ UNCHANGED <<bucket, r2Configured>>
  /\ UNCHANGED <<accountVars, clientVars>>

\* the response is finished
StreamClose ==
  /\ stream.pc = "done"
  /\ stream.body # "piped"
  /\ stream' = StreamIdle
  /\ UNCHANGED <<bucket, r2Configured>>
  /\ UNCHANGED <<accountVars, clientVars>>

\* an upload stores an object under a key, replacing what was there
ObjectPut(k, size, contentType) ==
  /\ stream.pc # "done"
  /\ bucket[k] # [ContentLength |-> size, ContentType |-> contentType]
  /\ bucket' = [bucket EXCEPT ![k] = [ContentLength |-> size, ContentType |-> contentType]]
  /\ UNCHANGED <<r2Configured, stream>>
  /\ UNCHANGED <<accountVars, clientVars>>

\* an object is removed from the bucket (the bucket is not the proxy's alone)
ObjectDelete(k) ==
  /\ stream.pc # "done"
  /\ bucket[k] # NoObject
  /\ bucket' = [bucket EXCEPT ![k] = NoObject]
  /\ UNCHANGED <<r2Configured, stream>>
  /\ UNCHANGED <<accountVars, clientVars>>

\* --------------------------------------------------------------- key mint
\* r2-signed-url.js
\* file sizes are counted in KiB (the limit of 5 * 1024 * 1024 * 1024 bytes is
\* beyond the integers of the checker); the bucket counts bytes
MaxFileSize == 5 * 1024 * 1024

Bytes(size) == size * 1024

File(name, type, size) == [name |-> name, type |-> type, size |-> size]

NoFile == File(<<>>, "", 0)

Movie == File(<<"m", " ", "a">>, "video/mp4", 3)

Files == {Movie, File(<<"p">>, "image/png", 1), File(<<"a">>, "video/mp4", MaxFileSize + 1)}

\* the characters /[^a-zA-Z0-9._-]/ leaves alone, among those of the model
SafeChars == {"a", "m", "p", ".", "_", "-"}

\* fileName.replace(/[^a-zA-Z0-9._-]/g, '_')
sanitizedName(fileName) ==
  [i \in 1..Len(fileName) |-> IF fileName[i] \in SafeChars THEN fileName[i] ELSE "_"]

\* Math.random().toString(36).substring(2, 10)
RandomStrs == {<<"x">>, <<"y">>}

\* `videos/${timestamp}_${randomStr}_${sanitizedName}`
mintKey(timestamp, randomStr, fileName) ==
  <<"videos", "/">> \o NumToChars(timestamp) \o <<"_">> \o randomStr \o <<"_">>
    \o sanitizedName(fileName)

MintKeys == {mintKey(t, r, f.name) : t \in 0..MaxClock, r \in RandomStrs, f \in Files}

MintReq(method, fileName, contentType) ==
  [method |-> method, fileName |-> fileName, contentType |-> contentType]

MintRes(status, key) == [status |-> status, key |-> key]

\* the key-mint handler; signed tells whether getSignedUrl resolved
Mint(req, configured, timestamp, randomStr, signed) ==
  IF req.method # "POST" THEN MintRes(405, Undefined)
  ELSE IF ~configured THEN MintRes(500, Undefined)
  ELSE IF ~Truthy(req.fileName) \/ ~Truthy(req.contentType) THEN MintRes(400, Undefined)
  ELSE IF ~signed THEN MintRes(500, Undefined)
  ELSE MintRes(200, Str(mintKey(timestamp, randomStr, req.fileName.v)))

\* ----------------------------------------------------------- proxy upload
\* r2-proxy-upload
ProxyReq(method, file, key, from) ==
  [method |-> method, file |-> file, key |-> key, from |-> from]

NoProxyReq == ProxyReq("", Undefined, Undefined, "")

ProxyIdle ==
  [pc |-> "idle", req |-> NoProxyReq, aborted |-> FALSE, puts |-> <<>>,
   res |-> MintRes(0, Undefined)]

ProxyRespond(l, status, key) == [l EXCEPT !.pc = "done", !.res = MintRes(status, key)]

\* lines 76-81: the method check, then the multipart body is awaited
ProxyAccept(l, req) ==
  IF req.method # "POST"
  THEN ProxyRespond([l EXCEPT !.req = req], 405, Undefined)
  ELSE [l EXCEPT !.pc = "parse", !.req = req]

\* lines 81-97: what follows parseForm, up to the put
AfterParse(l, parsed, configured) ==
  IF ~parsed THEN ProxyRespond(l, 500, Undefined)
  ELSE IF l.req.file = Undefined THEN ProxyRespond(l, 400, Undefined)
  ELSE IF ~Truthy(l.req.key) THEN ProxyRespond(l, 400, Undefined)
  ELSE IF ~configured THEN ProxyRespond(l, 500, Undefined)
  ELSE [l EXCEPT !.pc = "send"]

\* faulty variant: the object is stored under the name of the file
PutObjectByName(objects, key, file) ==
  LET named == mintKey(0, <<"x">>, file.name)
  IN [objects EXCEPT ![named] =
        [ContentLength |-> Bytes(file.size),
         ContentType |-> IF file.type = "" THEN "application/octet-stream" ELSE file.type]]

\* lines 99-106: PutObjectCommand({ Bucket, Key: key, Body: buffer, ContentType })
PutObject(objects, key, file) ==
  [objects EXCEPT ![key] =
     [ContentLength |-> Bytes(file.size),
      ContentType |-> IF file.type = "" THEN "application/octet-stream" ELSE file.type]]

\* lines 106-115: what follows client.send
AfterSend(l, outcome) ==
  IF outcome = "ok"
  THEN ProxyRespond([l EXCEPT !.puts = Append(@, l.req.key.v)], 200, l.req.key)
  ELSE ProxyRespond(l, 500, Undefined)

\* ------------------------------------------------------ VideoInput component
AllowedTypes ==
  {"video/mp4", "video/webm", "video/ogg", "video/quicktime", "video/x-msvideo",
   "video/x-matroska"}

RowIdle ==
  [pc |-> "idle", file |-> NoFile, key |-> Undefined,
   uploadStatus |-> "idle", uploadProgress |-> 0, uploadFileName |-> <<>>,
   uploadError |-> "", xhrRef |-> "null",
   r2_key |-> <<>>, calls |-> <<>>, cancelled |-> FALSE, uploads |-> 0]

\* the parent's onR2Upload(index, key, name), as far as this row sees it
onR2Upload(r, key) == [r EXCEPT !.r2_key = key, !.calls = Append(@, key)]

\* handleFileSelect, lines 171-194: up to the key-mint request
Selected(r, file) ==
  IF file.type \notin AllowedTypes
  THEN [r EXCEPT !.uploadError = "Invalid file type"]
  ELSE IF file.size > MaxFileSize
  THEN [r EXCEPT !.uploadError = "File size exceeds 5GB limit."]
  ELSE [r EXCEPT !.pc = "minting", !.file = file, !.cancelled = FALSE, !.uploads = @ + 1,
                 !.uploadError = "", !.uploadFileName = file.name,
                 !.uploadStatus = "uploading", !.uploadProgress = 0]

\* lines 243-251: the catch block
Caught(r, message) ==
  IF message = "Upload cancelled"
  THEN [r EXCEPT !.pc = "idle", !.uploadStatus = "idle", !.uploadProgress = 0,
                 !.uploadFileName = <<>>]
  ELSE [r EXCEPT !.pc = "idle", !.uploadStatus = "error", !.uploadError = message]

\* lines 199-235: the key arrives and the file is sent with it
AfterMint(r, res) ==
  IF res.status = 200
  THEN [r EXCEPT !.pc = "sending", !.key = res.key, !.xhrRef = "open"]
  ELSE Caught(r, "Request failed")

\* Math.round((event.loaded / event.total) * 100)
Percent(loaded, total) == (200 * loaded + total) \div (2 * total)

\* lines 218-224 and 238-241: the load event
AfterLoad(r, status) ==
  IF status >= 200 /\ status < 300
  THEN onR2Upload([r EXCEPT !.pc = "idle", !.uploadStatus = "done", !.uploadProgress = 100,
                            !.xhrRef = "done"], r.key.v)
  ELSE Caught([r EXCEPT !.xhrRef = "done"], "Upload failed with status")

\* a file is chosen in the upload area, which shows while the status is idle
FileSelect(file) ==
  /\ row.pc = "idle"
  /\ row.uploadStatus = "idle"
  /\ row.uploads < MaxUploads
  /\ row' = Selected(row, file)
  /\ row' # row
  /\ UNCHANGED <<minted, proxy, form, player>>
  /\ UNCHANGED <<accountVars, mediaVars>>

\* the key-mint endpoint answers the row's request; with a key, the row opens
\* the transfer to the proxy-upload endpoint
MintRespond(randomStr, signed) ==
  /\ row.pc = "minting"
  /\ proxy.pc = "idle"
  /\ LET res == Mint(MintReq("POST", Str(row.file.name), Str(<<row.file.type>>)),
                     r2Configured, clock, randomStr, signed)
     IN /\ row' = AfterMint(row, res)
        /\ IF res.status = 200
           THEN /\ minted' = minted \cup {res.key.v}
                /\ proxy' = ProxyAccept(ProxyIdle, ProxyReq("POST", row.file, res.key, "row"))
           ELSE UNCHANGED <<minted, proxy>>
  /\ UNCHANGED <<form, player>>
  /\ UNCHANGED <<accountVars, mediaVars>>

\* a progress event of the transfer
XhrProgress(loaded) ==
  /\ row.pc = "sending"
  /\ proxy.pc = "parse"
  /\ Percent(loaded, row.file.size) > row.uploadProgress
  /\ row' = [row EXCEPT !.uploadProgress = Percent(loaded, row.file.size)]
  /\ UNCHANGED <<minted, proxy, form, player>>
  /\ UNCHANGED <<accountVars, mediaVars>>

\* handleCancelUpload: the Cancel button shows while the status is uploading.
\* abort() on a transfer in flight fires the abort event, whose rejection the
\* catch block takes; on a finished transfer it fires nothing.
CancelUpload ==
  /\ row.uploadStatus = "uploading"
  /\ row' = IF row.xhrRef = "open"
            THEN Caught([row EXCEPT !.xhrRef = "null", !.cancelled = TRUE], "Upload cancelled")
            ELSE [row EXCEPT !.xhrRef = "null", !.cancelled = TRUE]
  /\ proxy' = IF row.xhrRef = "open" THEN [proxy EXCEPT !.aborted = TRUE] ELSE proxy
  /\ UNCHANGED <<minted, form, player>>
  /\ UNCHANGED <<accountVars, mediaVars>>

\* the response of the proxy-upload endpoint reaches the row
XhrLoad ==
  /\ row.pc = "sending"
  /\ proxy.pc = "done"
  /\ proxy.req.from = "row"
  /\ ~proxy.aborted
  /\ row' = AfterLoad(row, proxy.res.status)
  /\ proxy' = ProxyIdle
  /\ UNCHANGED <<minted, form, player>>
  /\ UNCHANGED <<accountVars, mediaVars>>

\* the connection of the transfer fails
XhrError ==
  /\ row.pc = "sending"
  /\ proxy.req.from = "row"
  /\ ~proxy.aborted
  /\ row' = Caught([row EXCEPT !.xhrRef = "done"], "Upload failed")
  /\ proxy' = [proxy EXCEPT !.aborted = TRUE]
  /\ UNCHANGED <<minted, form, player>>
  /\ UNCHANGED <<accountVars, mediaVars>>

\* handleRemoveUpload: the Remove button shows while the status is done
RemoveUpload ==
  /\ row.uploadStatus = "done"
  /\ row' = onR2Upload([row EXCEPT !.uploadStatus = "idle", !.uploadProgress = 0,
                                   !.uploadFileName = <<>>, !.uploadError = ""], <<>>)
  /\ UNCHANGED <<minted, proxy, form, player>>
  /\ UNCHANGED <<accountVars, mediaVars>>

\* the Try Again button shows while the status is error
TryAgain ==
  /\ row.uploadStatus = "error"
  /\ row' = [row EXCEPT !.uploadStatus = "idle", !.uploadProgress = 0,
                        !.uploadFileName = <<>>, !.uploadError = ""]
  /\ UNCHANGED <<minted, proxy, form, player>>
  /\ UNCHANGED <<accountVars, mediaVars>>

\* a request that is not the row's reaches the proxy-upload endpoint
ProxyRequest(req) ==
  /\ proxy.pc = "idle"
  /\ row.pc # "minting"
  /\ proxy' = ProxyAccept(ProxyIdle, req)
  /\ UNCHANGED <<minted, row, form, player>>
  /\ UNCHANGED <<accountVars, mediaVars>>

\* parseForm settles: it rejects when the transfer was broken off
ProxyParse ==
  /\ proxy.pc = "parse"
  /\ \E parsed \in (IF proxy.aborted THEN {FALSE} ELSE BOOLEAN) :
       proxy' = AfterParse(proxy, parsed, r2Configured)
  /\ UNCHANGED <<minted, row, form, player>>
  /\ UNCHANGED <<accountVars, mediaVars>>

\* client.send(PutObjectCommand) settles
ProxySend ==
  /\ proxy.pc = "send"
  /\ \E outcome \in {"ok", "error"} :
       /\ proxy' = AfterSend(proxy, outcome)
       /\ bucket' = IF outcome = "ok"
                    THEN PutObject(bucket, proxy.req.key.v, proxy.req.file)
                    ELSE bucket
  /\ UNCHANGED <<minted, row, form, player>>
  /\ UNCHANGED <<r2Configured, stream>>
  /\ UNCHANGED accountVars

\* a response nobody on the page waits for leaves the server
ProxyClose ==
  /\ proxy.pc = "done"
  /\ proxy.req.from # "row" \/ proxy.aborted
  /\ proxy' = ProxyIdle
  /\ UNCHANGED <<minted, row, form, player>>
  /\ UNCHANGED <<accountVars, mediaVars>>

\* ----------------------------------------------------------- the edit form
\* EditHomeworkVideo. Strings are sequences of characters and of the words the
\* patterns look for; " " is the white space.
IdChars == {"a", "B", "7", "_", "-"}

\* eleven characters of a video id start at position i
IdAt(url, i) ==
  /\ i + 10 <= Len(url)
  /\ \A j \in i..(i + 10) : url[j] \in IdChars

\* where /(?:youtu\.be\/|youtube\.com\/(?:watch\?v=|embed\/))([a-zA-Z0-9_-]{11})/
\* matches: the position of the id
IdPositions(url) ==
  {i \in 1..Len(url) :
     /\ IdAt(url, i)
     /\ \/ i > 1 /\ url[i - 1] = "youtu.be/"
        \/ i > 2 /\ url[i - 2] = "youtube.com/" /\ url[i - 1] \in {"watch?v=", "embed/"}}

Null == [t |-> "null"]

\* faulty variant: any text after the host passes for an id
extractYouTubeIdLoose(url) ==
  IF \E i \in 1..Len(url) : url[i] \in {"youtu.be/", "youtube.com/"}
  THEN LET i == CHOOSE j \in 1..Len(url) : url[j] \in {"youtu.be/", "youtube.com/"}
       IN Str(SubSeq(url, i + 1, Len(url)))
  ELSE Null

\* extractYouTubeId: the id of the leftmost match, or null
extractYouTubeId(url) ==
  IF IdPositions(url) = {} THEN Null
  ELSE LET i == CHOOSE j \in IdPositions(url) : \A k \in IdPositions(url) : j <= k
       IN Str(SubSeq(url, i, i + 10))

RECURSIVE SkipSpaces(_)
SkipSpaces(s) == IF s # <<>> /\ Head(s) = " " THEN SkipSpaces(Tail(s)) ELSE s

\* extractWeekNumber: /week\s*(\d+)/i, then parseInt
extractWeekNumber(weekString) ==
  LET at == {i \in 1..Len(weekString) :
               /\ weekString[i] \in {"week", "Week"}
               /\ LET rest == SkipSpaces(SubSeq(weekString, i + 1, Len(weekString)))
                  IN rest # <<>> /\ Head(rest) \in Digits}
  IN IF weekString = <<>> \/ at = {} THEN Null
     ELSE LET i == CHOOSE j \in at : \A k \in at : j <= k
          IN Num(DigitsValue(SkipSpaces(SubSeq(weekString, i + 1, Len(weekString))), 0))

\* a row of formData.videos, as far as handleSubmit reads it
Video(video_name, youtube_url, r2_key) ==
  [video_name |-> video_name, youtube_url |-> youtube_url, r2_key |-> r2_key]

EmptyVideo == Video(<<>>, <<>>, <<>>)

Error(key, message) == [key |-> key, message |-> message]

\* `video_${index}_youtube_url`, index counted from 0
UrlKey(index) == <<"video_", index, "_youtube_url">>

NotSent == [sent |-> FALSE]

NoSubmit == [videos |-> <<>>, errors |-> {}, data |-> NotSent]

\* the sessions the page has loaded, and the one it edits
Session(id, grade, week) == [_id |-> id, grade |-> grade, week |-> week]

Sessions == <<Session(1, <<"G1">>, 1), Session(2, <<"G1">>, 2)>>

EditedId == 1

FormLoading ==
  [isLoadingSession |-> TRUE, name |-> <<>>, videos |-> <<EmptyVideo>>,
   selectedGrade |-> <<>>, selectedWeek |-> <<>>, paymentState |-> "paid",
   errors |-> {}, last |-> NoSubmit]

\* weekNumberToString for the weeks of the model
weekNumberToString(weekNumber) == <<"week", " ", "0", DigitChar(weekNumber)>>

\* lines 325-376: the session's fields are put into the form (the sessions of
\* the model hold no video, so the form keeps its one empty row)
Loaded(f, session) ==
  [f EXCEPT !.isLoadingSession = FALSE, !.name = <<"n">>,
            !.selectedGrade = session.grade,
            !.selectedWeek = weekNumberToString(session.week)]

\* video.r2_key && video.r2_key.trim()
HasKey(video) == video.r2_key # <<>> /\ Trim(video.r2_key) # <<>>

\* video.youtube_url && video.youtube_url.trim()
HasUrl(video) == video.youtube_url # <<>> /\ Trim(video.youtube_url) # <<>>

\* lines 523-544: the errors of the video rows
VideoErrors(videos) ==
  LET validVideos == {i \in 1..Len(videos) : HasKey(videos[i]) \/ HasUrl(videos[i])}
  IN {Error(<<"videos">>, "At least one valid video is required") :
        x \in IF validVideos = {} THEN {1} ELSE {}}
     \cup {Error(UrlKey(i - 1), "Invalid YouTube URL") :
             i \in {j \in 1..Len(videos) :
                      /\ ~HasKey(videos[j])
                      /\ HasUrl(videos[j])
                      /\ extractYouTubeId(Trim(videos[j].youtube_url)) = Null}}
     \cup {Error(UrlKey(i - 1), "Video URL or upload is required") :
             i \in {j \in 1..Len(videos) :
                      /\ ~HasKey(videos[j])
                      /\ ~HasUrl(videos[j])
                      /\ \/ validVideos = {}
                         \/ \E k \in validVideos : k # j}}

\* lines 507-521: the errors of the other fields
FieldErrors(f) ==
  {Error(<<"grade">>, "Grade is required") : x \in IF Trim(f.selectedGrade) = <<>> THEN {1} ELSE {}}
    \cup {Error(<<"week">>, "Attendance week is required") :
            x \in IF Trim(f.selectedWeek) = <<>> THEN {1} ELSE {}}
    \cup {Error(<<"paymentState">>, "Video Payment State is required") :
            x \in IF f.paymentState \notin {"paid", "free", "free_if_attended"} THEN {1} ELSE {}}
    \cup {Error(<<"name">>, "Name is required") : x \in IF Trim(f.name) = <<>> THEN {1} ELSE {}}

\* video.video_name && video.video_name.trim() ? video.video_name.trim() : null
NameOf(video) == IF Trim(video.video_name) # <<>> THEN Str(Trim(video.video_name)) ELSE Null

\* lines 569-590: finalVideoData
RECURSIVE finalVideoData(_)
finalVideoData(videos) ==
  IF videos = <<>> THEN <<>>
  ELSE LET video == Head(videos)
           videoId == extractYouTubeId(Trim(video.youtube_url))
       IN (IF HasKey(video)
           THEN <<[video_type |-> "r2", video_id |-> Str(Trim(video.r2_key)),
                   video_name |-> NameOf(video)]>>
           ELSE IF HasUrl(video) /\ videoId # Null
           THEN <<[video_type |-> "youtube", video_id |-> videoId,
                   video_name |-> NameOf(video)]>>
           ELSE <<>>)
          \o finalVideoData(Tail(videos))

\* faulty variant: the session being edited is the only one looked at
duplicateSessionOwn(sessions, id, grade, weekNumber) ==
  \E i \in 1..Len(sessions) :
    /\ sessions[i]._id = id
    /\ sessions[i].grade = Trim(grade)
    /\ Num(sessions[i].week) = weekNumber

\* lines 559-561: sessions.find(session => session._id !== id && ...)
duplicateSession(sessions, id, grade, weekNumber) ==
  \E i \in 1..Len(sessions) :
    /\ sessions[i]._id # id
    /\ sessions[i].grade = Trim(grade)
    /\ Num(sessions[i].week) = weekNumber

\* handleSubmit: the errors it sets (none: setErrors is not called) and the
\* data it hands to the update mutation
handleSubmit(f, sessions, id) ==
  LET newErrors == FieldErrors(f) \cup VideoErrors(f.videos)
      weekNumber == extractWeekNumber(f.selectedWeek)
      duplicate == duplicateSession(sessions, id, f.selectedGrade, weekNumber)
  IN IF newErrors # {}
     THEN [errors |-> newErrors, data |-> NotSent]
     ELSE IF weekNumber = Null \/ weekNumber = Num(0)
     THEN [errors |-> {Error(<<"week">>, "Invalid week selection")}, data |-> NotSent]
     ELSE IF duplicate
     THEN [errors |-> {Error(<<"general">>, "A session with this grade and week already exists")},
           data |-> NotSent]
     ELSE [errors |-> f.errors,
           data |-> [sent |-> TRUE, name |-> Trim(f.name), grade |-> Trim(f.selectedGrade),
                     week |-> weekNumber.v, videos |-> finalVideoData(f.videos),
                     payment_state |-> f.paymentState]]

\* Object.keys(newErrors).forEach: delete the keys that start with `video_${index}_`
WithoutRow(errors, index) == {e \in errors : e.key # UrlKey(index)}

\* an edit of the form: what the last submit did is no longer on the screen
Edited(f) == [f EXCEPT !.last = NoSubmit]

\* the session list arrives and the edited session is put into the form
FormLoad ==
  /\ form.isLoadingSession
  /\ form' = Loaded(form, Sessions[EditedId])
  /\ UNCHANGED <<minted, proxy, row, player>>
  /\ UNCHANGED <<accountVars, mediaVars>>

\* the grade, the week and the name are chosen
FormFill(grade, week, name) ==
  /\ ~form.isLoadingSession
  /\ form' = Edited([form EXCEPT !.selectedGrade = grade, !.selectedWeek = week,
                                 !.name = name])
  /\ form' # form
  /\ UNCHANGED <<minted, proxy, row, player>>
  /\ UNCHANGED <<accountVars, mediaVars>>

\* addVideo
addVideo ==
  /\ ~form.isLoadingSession
  /\ Len(form.videos) < MaxRows
  /\ form' = Edited([form EXCEPT !.videos = Append(@, EmptyVideo)])
  /\ UNCHANGED <<minted, proxy, row, player>>
  /\ UNCHANGED <<accountVars, mediaVars>>

\* removeVideo(index): the last row left is kept
removeVideo(index) ==
  /\ ~form.isLoadingSession
  /\ index < Len(form.videos)
  /\ form' = Edited([form EXCEPT
                       !.videos = IF Len(@) <= 1 THEN @
                                  ELSE SubSeq(@, 1, index) \o SubSeq(@, index + 2, Len(@)),
                       !.errors = WithoutRow(@, index)])
  /\ form' # form
  /\ UNCHANGED <<minted, proxy, row, player>>
  /\ UNCHANGED <<accountVars, mediaVars>>

\* handleYouTubeUrlChange(index, url)
handleYouTubeUrlChange(index, url) ==
  /\ ~form.isLoadingSession
  /\ index < Len(form.videos)
  /\ form' = Edited([form EXCEPT !.videos[index + 1].youtube_url = url,
                                 !.errors = WithoutRow(@, index)])
  /\ form' # form
  /\ UNCHANGED <<minted, proxy, row, player>>
  /\ UNCHANGED <<accountVars, mediaVars>>

\* handleR2Upload(index, r2Key, fileName)
handleR2Upload(index, r2Key) ==
  /\ ~form.isLoadingSession
  /\ index < Len(form.videos)
  /\ form' = Edited([form EXCEPT !.videos[index + 1].r2_key = r2Key,
                                 !.errors = WithoutRow(@, index)])
  /\ form' # form
  /\ UNCHANGED <<minted, proxy, row, player>>
  /\ UNCHANGED <<accountVars, mediaVars>>

\* the form is submitted
FormSubmit ==
  /\ ~form.isLoadingSession
  /\ form.last = NoSubmit
  /\ LET done == handleSubmit(form, Sessions, EditedId)
     IN form' = [form EXCEPT !.errors = done.errors,
                             !.last = [videos |-> form.videos, errors |-> done.errors,
                                       data |-> done.data]]
  /\ UNCHANGED <<minted, proxy, row, player>>
  /\ UNCHANGED <<accountVars, mediaVars>>

\* ------------------------------------------------------------ video player
VideoDuration == 10    \* length of every video, in seconds

MaxCalls == 2          \* onComplete calls counted between two resets of the flag

\* const videoUrl = r2Key ? `/api/videos/${r2Key}` : null
videoUrl(r2Key) == IF Truthy(r2Key) THEN Str(<<"/api/videos/">> \o r2Key.v) ELSE Null

\* the <video> element is rendered: there is a url and no error is shown
HasVideo(p) == videoUrl(p.r2Key) # Null /\ ~p.error

\* The component after its first render without a key: no element, no
\* listener; calls and completed observe the onComplete calls.
PlayerIdle ==
  [r2Key |-> Null, videoId |-> 1, onComplete |-> TRUE, error |-> FALSE,
   hasMarkedComplete |-> FALSE,
   listener |-> 0,          \* the videoId handleTimeUpdate closed over; 0: no listener
   currentTime |-> 0,
   duration |-> 0,          \* 0 stands for NaN: no metadata yet
   calls |-> 0,             \* onComplete calls since the flag was last reset
   completed |-> {}]        \* the keys onComplete was called for

\* faulty variant of handleTimeUpdate: the flag is not looked at
handleTimeUpdateAgain(p) ==
  IF p.duration = 0 THEN p
  ELSE IF p.currentTime * 100 >= 90 * p.duration
       THEN [p EXCEPT !.hasMarkedComplete = TRUE,
                      !.calls = IF p.onComplete THEN @ + 1 ELSE @,
                      !.completed = IF p.onComplete THEN @ \cup {p.r2Key} ELSE @]
       ELSE p

\* handleTimeUpdate, on the element at video.currentTime and video.duration
handleTimeUpdate(p) ==
  IF p.duration = 0 \/ p.hasMarkedComplete THEN p
  ELSE IF p.currentTime * 100 >= 90 * p.duration
       THEN [p EXCEPT !.hasMarkedComplete = TRUE,
                      !.calls = IF p.onComplete THEN @ + 1 ELSE @,
                      !.completed = IF p.onComplete THEN @ \cup {p.r2Key} ELSE @]
       ELSE p

\* The parent renders the player with another r2Key. The progress effect runs
\* again (videoUrl changed) and listens if the element is there; the reset
\* effect clears the flag and the error, and the render that follows the
\* cleared error brings the element back without running the progress effect.
R2KeyChange(k) ==
  /\ k # player.r2Key
  /\ player' = [player EXCEPT
                  !.r2Key = k,
                  !.listener = IF videoUrl(k) # Null /\ ~player.error
                               THEN player.videoId ELSE 0,
                  !.hasMarkedComplete = FALSE,
                  !.error = FALSE,
                  !.currentTime = 0,
                  !.duration = 0,
                  !.calls = 0]
  /\ UNCHANGED <<minted, proxy, row, form>>
  /\ UNCHANGED <<accountVars, mediaVars>>

\* The parent renders the player with another videoId or onComplete: the
\* progress effect runs again, the reset effect does not.
PropsChange(v, oc) ==
  /\ <<v, oc>> # <<player.videoId, player.onComplete>>
  /\ player' = [player EXCEPT
                  !.videoId = v,
                  !.onComplete = oc,
                  !.listener = IF HasVideo(player) THEN v ELSE 0]
  /\ UNCHANGED <<minted, proxy, row, form>>
  /\ UNCHANGED <<accountVars, mediaVars>>

\* the element has the metadata of its source
LoadedMetadata ==
  /\ HasVideo(player)
  /\ player.duration = 0
  /\ player' = [player EXCEPT !.duration = VideoDuration]
  /\ UNCHANGED <<minted, proxy, row, form>>
  /\ UNCHANGED <<accountVars, mediaVars>>

\* playback or a seek brings the element to time t and it fires timeupdate
TimeUpdate(t) ==
  /\ HasVideo(player)
  /\ t <= player.duration
  /\ player.calls < MaxCalls
  /\ LET video == [player EXCEPT !.currentTime = t]
     IN player' = IF player.listener # 0 THEN handleTimeUpdate(video) ELSE video
  /\ UNCHANGED <<minted, proxy, row, form>>
  /\ UNCHANGED <<accountVars, mediaVars>>

\* onError: the error view replaces the element, and its listener with it
VideoError ==
  /\ HasVideo(player)
  /\ player' = [player EXCEPT !.error = TRUE, !.listener = 0,
                              !.currentTime = 0, !.duration = 0]
  /\ UNCHANGED <<minted, proxy, row, form>>
  /\ UNCHANGED <<accountVars, mediaVars>>

\* Retry: the error is cleared and a new element rendered; videoRef.current
\* was null, and no dependency of the progress effect changed
Retry ==
  /\ player.error
  /\ player' = [player EXCEPT !.error = FALSE]
  /\ UNCHANGED <<minted, proxy, row, form>>
  /\ UNCHANGED <<accountVars, mediaVars>>

\* ------------------------------------------------------------ specification
InitUser(role, account_state) ==
  [_id |-> UserKey, id |-> UserId, role |-> role,
   password |-> bcryptHash(Str(<<"secret">>)),
   account_state |-> account_state, device_limitations |-> NoLimitations]

\* role, users.account_state and the students document of the account
ActiveStudent == <<"student", "", [id |-> UserId, account_state |-> "Activated"]>>

ActiveAssistant == <<"assistant", "Activated", NoDoc>>

Accounts ==
  { ActiveStudent,
    <<"student", "Activated", NoDoc>>,
    ActiveAssistant,
    <<"assistant", "", NoDoc>>,
    <<"admin", "Activated", NoDoc>>,
    <<"developer", "Activated", NoDoc>> }

Expired == [active |-> TRUE, date_of_expiration |-> [t |-> "date", ms |-> 0]]

Expiring == [active |-> TRUE, date_of_expiration |-> [t |-> "date", ms |-> MaxClock]]

\* SYSTEM_SUBSCRIPTION and the subscription document
Subscriptions ==
  { <<FALSE, NoDoc>>,
    <<TRUE, NoDoc>>,
    <<TRUE, Expired>>,
    <<TRUE, Expiring>>,
    <<TRUE, [active |-> TRUE, date_of_expiration |-> Undefined]>>,
    <<TRUE, [active |-> TRUE, date_of_expiration |-> Str(<<"soon">>)]>>,
    <<TRUE, [active |-> FALSE, date_of_expiration |-> Undefined]>> }

ByFile == <<Str(<<"TRUE">>), Undefined>>

\* env.config and process.env values of SYSTEM_DEVICE_LIMITATIONS at start
Environments == {ByFile, <<Str(<<"false">>), Str(<<"1">>)>>, <<Undefined, Str(<<"1">>)>>}

\* The state after the modules are loaded, for the given accounts,
\* subscriptions and environments: no device is registered yet.
InitWith(accounts, subscriptions, environments, configurations) ==
  /\ \E a \in accounts :
       /\ users = [k \in {UserKey} |-> InitUser(a[1], a[2])]
       /\ students = a[3]
  /\ \E sub \in subscriptions :
       /\ SUBSCRIPTION_ENABLED = sub[1]
       /\ subscription = sub[2]
  /\ \E e \in environments :
       /\ envFile = e[1]
       /\ envConfig = e[1]
       /\ processEnv = e[2]
  /\ clock = 0
  /\ login = [s \in Slots |-> Idle]
  /\ admin = NoAdmin
  /\ monitor = MonitorOff
  /\ bucket = [k \in ObjectKeys \cup MintKeys |-> NoObject]
  /\ minted = {}
  /\ proxy = ProxyIdle
  /\ row = RowIdle
  /\ form = FormLoading
  /\ player = PlayerIdle
  /\ r2Configured \in configurations
  /\ stream = StreamIdle

\* Spec: one login at a time, every account, the device-admin requests of an
\* authorized administrator; the behaviour is shorter than a clock tick.
Init ==
  InitWith(Accounts, {<<FALSE, NoDoc>>, <<TRUE, Expired>>},
           {ByFile, <<Str(<<"false">>), Str(<<"1">>)>>}, {TRUE})

Next ==
  \/ \E req \in LoginRequests : LoginFindUser(1, req, TRUE)
  \/ \E s \in Slots : LoginFindStudent(s)
  \/ \E s \in Slots : LoginFindSubscription(s)
  \/ \E s \in Slots : LoginDeactivate(s)
  \/ \E s \in Slots : LoginUpdateOne(s)
  \/ \E s \in Slots : LoginClose(s)
  \/ \E f \in Families, req \in AdminRequests : AdminRequest(f, req)
  \/ AdminClose

Spec == Init /\ [][Next]_vars

\* TimedSpec: as Spec, with the clock advancing, for the activated accounts
\* and the administrator's requests that change the account.
TimedInit ==
  InitWith({ActiveStudent, ActiveAssistant}, {<<FALSE, NoDoc>>, <<TRUE, Expiring>>}, {ByFile},
           {TRUE})

TimedAdminRequests ==
  {AdminReq("PATCH", Authorized, Str(<<"1">>), Num(MaxAllowed), Undefined),
   AdminReq("DELETE", Authorized, Str(<<"1">>), Undefined, Str(<<"A">>))}

TimedNext ==
  \/ \E req \in LoginRequests : LoginFindUser(1, req, TRUE)
  \/ \E s \in Slots : LoginFindStudent(s)
  \/ \E s \in Slots : LoginFindSubscription(s)
  \/ \E s \in Slots : LoginDeactivate(s)
  \/ \E s \in Slots : LoginUpdateOne(s)
  \/ \E s \in Slots : LoginClose(s)
  \/ \E f \in Families, req \in TimedAdminRequests : AdminRequest(f, req)
  \/ AdminClose
  \/ Tick

TimedSpec == TimedInit /\ [][TimedNext]_vars

\* ConfigSpec: env.config is edited while the server runs, between the
\* requests of one login at a time and of an administrator.
ConfigInit == InitWith({ActiveAssistant}, {<<FALSE, NoDoc>>}, Environments, {TRUE})

\* the requests of every requester: with a session of each role, with none,
\* and with one that makes authMiddleware throw
ConfigAdminRequests ==
  {AdminReq(m, a, Str(<<"1">>), Num(MaxAllowed), Str(<<"A">>)) :
     m \in {"GET", "PATCH", "DELETE"}, a \in AuthOutcomes}

ConfigNext ==
  \/ \E req \in LoginRequests : LoginFindUser(1, req, TRUE)
  \/ \E s \in Slots : LoginUpdateOne(s)
  \/ \E s \in Slots : LoginClose(s)
  \/ \E f \in Families, req \in ConfigAdminRequests : AdminRequest(f, req)
  \/ AdminClose
  \/ ConfigChange

ConfigSpec == ConfigInit /\ [][ConfigNext]_vars

\* PlayerSpec: a player whose parent changes its props while the video plays,
\* is sought in, fails and is retried.
PlayerInit == InitWith({ActiveAssistant}, {<<FALSE, NoDoc>>}, {ByFile}, {TRUE})

PlayerKeys == {Null, Str(join(KeyA)), Str(join(KeyB))}

PlayerNext ==
  \/ \E k \in PlayerKeys : R2KeyChange(k)
  \/ \E v \in {1, 2}, oc \in BOOLEAN : PropsChange(v, oc)
  \/ LoadedMetadata
  \/ \E t \in 0..VideoDuration : TimeUpdate(t)
  \/ VideoError
  \/ Retry

PlayerSpec == PlayerInit /\ [][PlayerNext]_vars

\* ConcSpec: logins to one account overlap.
ConcInit ==
  InitWith({ActiveAssistant}, {<<FALSE, NoDoc>>}, {ByFile}, {TRUE})

ConcLoginRequests == {r \in LoginRequests : Validate(r) = NoRes /\ r.assistant_id = Num(1)}

ConcNext ==
  \/ \E s \in Slots, req \in ConcLoginRequests : LoginFindUser(s, req, FALSE)
  \/ \E s \in Slots : LoginUpdateOne(s)
  \/ \E s \in Slots : LoginClose(s)
  \/ \E f \in Families, req \in TimedAdminRequests : AdminRequest(f, req)
  \/ AdminClose

ConcSpec == ConcInit /\ [][ConcNext]_vars

\* StreamSpec: the streaming proxy in front of an object store whose objects
\* come and go.
StreamInit == InitWith({ActiveAssistant}, {<<FALSE, NoDoc>>}, {ByFile}, BOOLEAN)

StreamNext ==
  \/ \E req \in StreamRequests : StreamRequest(req)
  \/ StreamHead
  \/ StreamRangedGet
  \/ StreamFullGet
  \/ StreamPipe
  \/ StreamClose
  \/ \E size \in Sizes : ObjectPut(join(KeyA), size, "video/mp4")
  \/ ObjectPut(join(KeyB), 1, "")
  \/ \E k \in ObjectKeys : ObjectDelete(k)

StreamSpec == StreamInit /\ [][StreamNext]_vars

\* UploadSpec: one row of the form uploads, cancels and removes files, and
\* other callers post to the proxy-upload endpoint.
UploadInit == InitWith({ActiveAssistant}, {<<FALSE, NoDoc>>}, {ByFile}, BOOLEAN)

ProxyRequests ==
  {ProxyReq("POST", Movie, Str(join(KeyA)), "other"),
   ProxyReq("POST", Movie, Str(<<>>), "other"),
   ProxyReq("POST", Movie, Undefined, "other"),
   ProxyReq("POST", Undefined, Str(join(KeyA)), "other"),
   ProxyReq("GET", Movie, Str(join(KeyA)), "other")}

UploadNext ==
  \/ \E file \in Files : FileSelect(file)
  \/ \E randomStr \in RandomStrs, signed \in BOOLEAN : MintRespond(randomStr, signed)
  \/ \E loaded \in 1..Movie.size : XhrProgress(loaded)
  \/ CancelUpload
  \/ XhrLoad
  \/ XhrError
  \/ RemoveUpload
  \/ TryAgain
  \/ \E req \in ProxyRequests : ProxyRequest(req)
  \/ ProxyParse
  \/ ProxySend
  \/ ProxyClose

UploadSpec == UploadInit /\ [][UploadNext]_vars

\* FormSpec: the edit form is loaded, edited and submitted.
FormInit == InitWith({ActiveAssistant}, {<<FALSE, NoDoc>>}, {ByFile}, {TRUE})

WatchId == <<"a", "B", "7", "_", "-", "a", "B", "7", "_", "-", "a">>

Urls ==
  {<<>>,
   <<" ">>,
   <<" ", "https://", "youtube.com/", "embed/">> \o WatchId \o <<"7", "?t=1", " ">>,
   <<"https://", "youtu.be/">> \o SubSeq(WatchId, 1, 10)}

R2Keys == {<<>>, <<" ">>, mintKey(0, <<"x">>, Movie.name)}

\* grade, week and name: as loaded, the week of another session, nothing
Fills ==
  {<<<<"G1">>, <<"week", " ", "0", "1">>, <<"n">>>>,
   <<<<"G1">>, <<"Week", "0", "2">>, <<"n">>>>,
   <<<<>>, <<>>, <<>>>>}

FormNext ==
  \/ FormLoad
  \/ \E fill \in Fills : FormFill(fill[1], fill[2], fill[3])
  \/ addVideo
  \/ \E index \in 0..(MaxRows - 1) : removeVideo(index)
  \/ \E index \in 0..(MaxRows - 1), url \in Urls : handleYouTubeUrlChange(index, url)
  \/ \E index \in 0..(MaxRows - 1), r2Key \in R2Keys : handleR2Upload(index, r2Key)
  \/ FormSubmit

FormSpec == FormInit /\ [][FormNext]_vars

\* ------------------------------------------------------------------- claims
\* what the claims say of a login, in their own words
Account == users[UserKey].device_limitations

\* allowed_devices of a device_limitations object (1 when none is set)
CapOf(limitations) ==
  IF limitations.allowed_devices.t = "number" THEN limitations.allowed_devices.v ELSE 1

\* the device identity a request presents
DeviceOf(req) == incomingDeviceId(req.device_id)

DeviceIds(devices) == {devices[i].device_id : i \in 1..Len(devices)}

Registered(devices, req) == DeviceOf(req) \in DeviceIds(devices)

Ok == [status |-> 200, error |-> ""]

Answer(l) == [status |-> l.res.status, error |-> l.res.error]

\* in this step the login in slot s comes to the device limitations block,
\* which applies to it, holding the account's device list as it is now
Decides(s) ==
  /\ login[s].limiting = "unread"
  /\ login'[s].limiting = "on"
  /\ login'[s].assistant.role # "developer"
  /\ login'[s].assistant.device_limitations = Account

\* in this step the login in slot s writes the device list it read, which is
\* still the account's list
Writes(s) ==
  /\ login[s].pc = "updateOne"
  /\ login'[s].pc = "done"
  /\ login[s].assistant.device_limitations = Account

\* C1: with device limiting on, a non-developer login that passed the earlier
\* checks from a device that is not registered is rejected with
\* device_limit_reached, the store unchanged, when the list holds at least
\* allowed_devices devices; otherwise it goes on to write, succeeds, and the
\* stored list is the old list with one record of that device appended.
C1Step ==
  \A s \in Slots :
    /\ (Decides(s) /\ ~Registered(Account.devices, login'[s].req)) =>
         /\ users' = users
         /\ IF Len(Account.devices) >= CapOf(Account)
            THEN /\ login'[s].pc = "done"
                 /\ Answer(login'[s]) = [status |-> 403, error |-> "device_limit_reached"]
            ELSE login'[s].pc = "updateOne"
    /\ (Writes(s) /\ ~Registered(Account.devices, login[s].req)) =>
         /\ Answer(login'[s]) = Ok
         /\ Len(Account'.devices) = Len(Account.devices) + 1
         /\ SubSeq(Account'.devices, 1, Len(Account.devices)) = Account.devices
         /\ Account'.devices[Len(Account'.devices)].device_id = DeviceOf(login[s].req)

C1RejectsAtCapElseAppends == [][C1Step]_vars

\* a login was just rejected at the limit with two devices registered and two allowed
C1Witness ==
  \E s \in Slots :
    /\ login[s].pc = "done"
    /\ login[s].res.error = "device_limit_reached"
    /\ login[s].assistant.device_limitations = Account
    /\ Len(Account.devices) = 2
    /\ CapOf(Account) = 2

\* C2: with device limiting on, a login that passed the earlier checks from a
\* registered device succeeds; the stored list keeps its length and its
\* device ids, every other record is as it was, and the record of that device
\* differs at most in last_login.
C2Step ==
  \A s \in Slots :
    (Writes(s) /\ Registered(Account.devices, login[s].req)) =>
      /\ Answer(login'[s]) = Ok
      /\ Len(Account'.devices) = Len(Account.devices)
      /\ \A i \in 1..Len(Account.devices) :
           /\ Account'.devices[i].device_id = Account.devices[i].device_id
           /\ [Account'.devices[i] EXCEPT !.last_login = Account.devices[i].last_login]
                = Account.devices[i]
           /\ Account.devices[i].device_id # DeviceOf(login[s].req)
                => Account'.devices[i] = Account.devices[i]

C2ReloginTouchesLastLoginOnly == [][C2Step]_vars

\* a registered device has just logged in again, later and from another
\* address: its last_login moved, the list is as long as before
C2Witness ==
  \E s \in Slots :
    LET l == login[s]
        i == findIndex(l.overwritten.devices, DeviceOf(l.req))
    IN /\ l.pc = "done"
       /\ l.writes = <<"users">>
       /\ l.overwritten = l.assistant.device_limitations
       /\ i # 0
       /\ l.stored.devices[i].last_login # l.overwritten.devices[i].last_login
       /\ l.stored.devices[i].first_login = l.overwritten.devices[i].first_login
       /\ l.stored.devices[i].ip # RequestIp(l.req)
       /\ Len(l.stored.devices) = 2

\* the login l registered a new device over a list that another login, which
\* read the list before l wrote, had extended with its own new device after
\* l had read it
Raced(l) ==
  /\ l.pc = "done"
  /\ l.writes = <<"users">>
  /\ ~Registered(l.assistant.device_limitations.devices, l.req)
  /\ \E d \in DeviceIds(l.overwritten.devices) :
       /\ d \notin DeviceIds(l.assistant.device_limitations.devices)
       /\ d # DeviceOf(l.req)

Rejected(l) == l.pc = "done" /\ l.res.status # 200

\* C4 as the claim states it: a login that is rejected has written nothing.
C4Original == \A s \in Slots : Rejected(login[s]) => login[s].writes = <<>>

\* C4, amended: a login rejected by one of its checks has not written the
\* users collection; the one write it can have made is the deactivation, in
\* place, of a subscription whose expiry has passed.  The device-list write is
\* made once, after every check has passed, by a login that then succeeds.
C4State ==
  \A s \in Slots :
    LET l == login[s]
    IN /\ Rejected(l) => l.writes \in {<<>>, <<"subscription">>}
       /\ (l.pc = "done" /\ l.res.status = 200) =>
            l.writes \in {<<>>, <<"users">>, <<"subscription">>, <<"subscription", "users">>}
       /\ (l.writes # <<>> /\ Head(l.writes) = "subscription") =>
            /\ l.subscription.date_of_expiration.t = "date"
            /\ l.now >= l.subscription.date_of_expiration.ms

C4Step ==
  \A s \in Slots :
    (login'[s] # login[s] /\ login'[s].pc # "idle") =>
      /\ students' = students
      /\ users' # users => login[s].pc = "updateOne" /\ Answer(login'[s]) = Ok
      /\ subscription' # subscription =>
           /\ login[s].pc = "deactivate"
           /\ subscription' = [subscription EXCEPT !.active = FALSE,
                                                   !.date_of_expiration = Undefined]
      /\ Rejected(login'[s]) => users' = users

C4RejectedLoginWritesNoUser == [](C4State) /\ [][C4Step]_vars

\* a login was rejected after it deactivated the expired subscription
C4Witness ==
  \E s \in Slots :
    /\ Rejected(login[s])
    /\ login[s].res.error = "subscription_inactive"
    /\ login[s].writes = <<"subscription">>
    /\ ~subscription.active

Within(limitations) == Len(limitations.devices) <= CapOf(limitations)

\* this step is a PATCH that leaves allowed_devices below the number of
\* devices registered
Lowering ==
  /\ admin = NoAdmin
  /\ admin' # NoAdmin
  /\ admin'.req.method = "PATCH"
  /\ CapOf(Account') < Len(Account.devices)

\* this step is the write of a login that overlapped a device-admin request:
\* the account's device_limitations changed after the login read it
Overlapped ==
  \E s \in Slots :
    /\ login[s].pc = "updateOne"
    /\ login'[s].pc = "done"
    /\ login[s].assistant.device_limitations # Account

\* C5: from a state where the account holds at most allowed_devices devices,
\* every step of a login that overlaps no other request, every device
\* deletion and every PATCH that does not lower allowed_devices below the
\* device count leads to such a state.
C5Step == (Within(Account) /\ ~Lowering /\ ~Overlapped) => Within(Account')

C5CapKept == [][C5Step]_vars

\* a login has just filled the second of two allowed places
C5Witness ==
  \E s \in Slots :
    /\ login[s].pc = "done"
    /\ Answer(login[s]) = Ok
    /\ login[s].writes = <<"users">>
    /\ Len(login[s].overwritten.devices) = 1
    /\ Len(Account.devices) = 2
    /\ CapOf(Account) = 2

\* C6: when a login from an unregistered device was rejected with
\* device_limit_reached, a PATCH then left allowed_devices above the number of
\* registered devices, and the same login comes next, it succeeds and the
\* stored list is the list as it was with that device appended.
C6NextLoginAfterRaise ==
  \A s \in Slots :
    (monitor.stage = "answered" /\ login[s].pc = "done") =>
      LET l == login[s]
      IN /\ l.req = monitor.req
         /\ Answer(l) = Ok
         /\ Account = l.stored
         /\ Len(l.stored.devices) = Len(l.overwritten.devices) + 1
         /\ SubSeq(l.stored.devices, 1, Len(l.overwritten.devices)) = l.overwritten.devices
         /\ l.stored.devices[Len(l.stored.devices)].device_id = DeviceOf(l.req)

\* [] -> [A] -> (B rejected) [A] -> (cap 2) [A, B]
C6Witness ==
  \E s \in Slots :
    /\ monitor.stage = "answered"
    /\ login[s].pc = "done"
    /\ login[s].overwritten.devices # <<>>
    /\ CapOf(Account) = 2
    /\ Len(Account.devices) = 2
    /\ Account.devices[1].device_id = <<"A">>
    /\ Account.devices[2].device_id = <<"B">>

\* this step is an accepted PATCH that leaves allowed_devices below the number
\* of devices registered
Lowered == Lowering /\ admin'.res.status = 200

\* C7: a PATCH that sets allowed_devices below the device count changes
\* nothing but allowed_devices, in any document; and while the list a login
\* read holds more devices than allowed, the login goes on to succeed when its
\* device is in the list and is rejected with device_limit_reached when not.
C7Step ==
  Lowered =>
    /\ \A k \in DOMAIN users :
         [users'[k] EXCEPT !.device_limitations.allowed_devices =
                              users[k].device_limitations.allowed_devices] = users[k]
    /\ <<students', subscription'>> = <<students, subscription>>

C7State ==
  \A s \in Slots :
    LET l == login[s]
        read == l.assistant.device_limitations
    IN (l.limiting = "on" /\ l.assistant.role # "developer" /\ ~Within(read)) =>
         IF Registered(read.devices, l.req)
         THEN l.pc = "updateOne" \/ (l.pc = "done" /\ Answer(l) = Ok)
         ELSE l.pc = "done" /\ Answer(l) = [status |-> 403, error |-> "device_limit_reached"]

C7LoweringEvictsNothing == [](C7State) /\ [][C7Step]_vars

\* a registered device has logged in while the list holds two devices and one is allowed
C7Witness ==
  \E s \in Slots :
    /\ login[s].pc = "done"
    /\ Answer(login[s]) = Ok
    /\ login[s].overwritten = login[s].assistant.device_limitations
    /\ Len(login[s].overwritten.devices) = 2
    /\ CapOf(login[s].overwritten) = 1
    /\ Len(Account.devices) = 2

\* this step answers a DELETE whose parameters are valid, with device limiting on
Deletes ==
  /\ admin = NoAdmin
  /\ admin' # NoAdmin
  /\ admin'.req.method = "DELETE"
  /\ isDeviceLimitationsEnabledAdmin(envConfig, processEnv)
  /\ Truthy(ParseInt(admin'.req.id))
  /\ Truthy(admin'.req.device_id)

\* C8: a DELETE with valid parameters succeeds; when the device is in no
\* list of the users it addresses the store is left as it was; and the same
\* DELETE on the state it leaves changes nothing and succeeds again.
C8Step ==
  Deletes =>
    LET req == admin'.req
        again == AdminHandler(admin'.family, req, users', TRUE)
    IN /\ admin'.res.status = 200
       /\ (\A k \in DOMAIN users :
             req.device_id.v \notin DeviceIds(users[k].device_limitations.devices))
            => users' = users
       /\ again.res.status = 200
       /\ again.users = users'
       /\ <<students', subscription'>> = <<students, subscription>>

C8DeleteAbsentIsNoOp == [][C8Step]_vars

\* a DELETE of a device that is not registered was answered with success while
\* another device is registered
C8Witness ==
  /\ admin # NoAdmin
  /\ admin.req.method = "DELETE"
  /\ admin.res.status = 200
  /\ Account.devices # <<>>
  /\ admin.req.device_id.v \notin DeviceIds(Account.devices)
  /\ admin.family = "assistants"
  /\ users[UserKey].role = "assistant"

\* what the claims say of a Range header: it is "bytes=" and digits around a
\* dash, with a number on at least one side
Parseable(range) ==
  /\ range # Undefined
  /\ range.unit = "bytes="
  /\ range.rest = ""
  /\ AllDigits(range.first) /\ AllDigits(range.last)
  /\ range.first # <<>> \/ range.last # <<>>

\* bytes=start-end, both given
Explicit(range) == Parseable(range) /\ range.first # <<>> /\ range.last # <<>>

\* the first byte a parseable header asks for
RequestedStart(range, totalSize) ==
  IF range.first # <<>> THEN DigitsValue(range.first, 0)
  ELSE Max(0, totalSize - DigitsValue(range.last, 0))

RequestedEnd(range) == DigitsValue(range.last, 0)

\* the object store answered HeadObject with the object's size
Sized == stream.totalSize >= 0

\* C9: for an authenticated request with Range bytes=start-end and
\* start <= end < totalSize, totalSize being the size HeadObject returned, the
\* proxy asks the object store for exactly bytes start..end and, when the
\* store answers, responds 206 with Content-Range bytes start-end/totalSize
\* and Content-Length end-start+1.
C9RangeServed ==
  LET range == stream.req.range
      start == RequestedStart(range, stream.totalSize)
      end == RequestedEnd(range)
  IN (/\ Sized
      /\ stream.req.auth = Authorized
      /\ Explicit(range)
      /\ start <= end
      /\ end < stream.totalSize) =>
       /\ stream.pc \in {"get", "done"}
       /\ stream.calls = <<<<"HeadObject">>, <<"GetObject", start, end>>>>
       /\ (stream.pc = "done" /\ stream.outcomes = <<"ok", "ok">>) =>
            /\ stream.res.status = 206
            /\ stream.res.headers.ContentRange = <<"bytes", start, end, stream.totalSize>>
            /\ stream.res.headers.ContentLength = end - start + 1
       /\ (stream.pc = "done" /\ stream.outcomes # <<"ok", "ok">>) => stream.res.status = 500

\* bytes=2-5 of a 10-byte object: 206, 4 bytes, bytes 2-5/10
C9Witness ==
  /\ stream.pc = "done"
  /\ stream.req.range = RangeHeader("bytes=", <<"2">>, <<"5">>, "")
  /\ stream.totalSize = 10
  /\ stream.res.status = 206
  /\ stream.res.headers.ContentLength = 4
  /\ stream.res.headers.ContentRange = <<"bytes", 2, 5, 10>>
  /\ stream.calls[2] = <<"GetObject", 2, 5>>

\* C10: a parseable Range header whose start is at or past the size
\* HeadObject returned is answered 416 with Content-Range bytes */totalSize,
\* and the only call made to the object store is that HeadObject.
C10StartPastEnd ==
  LET range == stream.req.range
  IN (Sized /\ Parseable(range) /\ RequestedStart(range, stream.totalSize) >= stream.totalSize) =>
       /\ stream.pc = "done"
       /\ stream.res.status = 416
       /\ stream.res.headers.ContentRange = <<"bytes", "*", stream.totalSize>>
       /\ stream.calls = <<<<"HeadObject">>>>

\* bytes=10- of a 10-byte object was answered 416
C10Witness ==
  /\ stream.pc = "done"
  /\ stream.req.range = RangeHeader("bytes=", <<"1", "0">>, <<>>, "")
  /\ stream.totalSize = 10
  /\ stream.res.status = 416
  /\ stream.res.headers.ContentRange = <<"bytes", "*", 10>>

\* bytes=-N
Suffix(range) == Parseable(range) /\ range.first = <<>>

\* every call to the object store so far was answered with the object
StoreAnswered == \A i \in 1..Len(stream.outcomes) : stream.outcomes[i] = "ok"

\* the response is a 206 for bytes start..end of totalSize
Partial(start, end, totalSize) ==
  /\ stream.res.status = 206
  /\ stream.res.headers.ContentRange = <<"bytes", start, end, totalSize>>
  /\ stream.res.headers.ContentLength = end - start + 1

\* C11 as the claim states it: bytes=-N is answered 206 for the last
\* min(N, totalSize) bytes, for every N >= 0 and every totalSize.
C11Original ==
  LET N == DigitsValue(stream.req.range.last, 0)
      total == stream.totalSize
  IN (Sized /\ Suffix(stream.req.range) /\ stream.pc = "done" /\ StoreAnswered) =>
       Partial(total - Min(N, total), total - 1, total)

\* C11, amended: for N >= 1 and totalSize >= 1, bytes=-N is answered 206 for
\* the last min(N, totalSize) bytes, start = totalSize - min(N, totalSize) and
\* end = totalSize - 1, and exactly these bytes are asked of the object store;
\* for N = 0 or an empty object it is answered 416 with bytes */totalSize and
\* nothing is fetched.
C11SuffixRange ==
  LET N == DigitsValue(stream.req.range.last, 0)
      total == stream.totalSize
      start == total - Min(N, total)
  IN (Sized /\ Suffix(stream.req.range)) =>
       IF N >= 1 /\ total >= 1
       THEN /\ stream.pc \in {"get", "done"}
            /\ stream.calls = <<<<"HeadObject">>, <<"GetObject", start, total - 1>>>>
            /\ (stream.pc = "done" /\ StoreAnswered) =>
                 /\ Partial(start, total - 1, total)
                 /\ stream.res.headers.ContentLength = Min(N, total)
       ELSE /\ stream.pc = "done"
            /\ stream.res.status = 416
            /\ stream.res.headers.ContentRange = <<"bytes", "*", total>>
            /\ stream.calls = <<<<"HeadObject">>>>

\* bytes=-11 of a 10-byte object was answered with all 10 bytes
C11Witness ==
  /\ stream.pc = "done"
  /\ stream.req.range = RangeHeader("bytes=", <<>>, <<"1", "1">>, "")
  /\ stream.totalSize = 10
  /\ Partial(0, 9, 10)

\* C12: a parseable range that starts inside the object and ends at or past
\* its size is served as 206 with end = totalSize - 1, and 416 is answered
\* only to an unparseable header or to a start at or past the size.
C12ClampedNot416 ==
  LET range == stream.req.range
      total == stream.totalSize
      start == RequestedStart(range, total)
  IN /\ (/\ Sized /\ Explicit(range) /\ stream.pc = "done" /\ StoreAnswered
         /\ start < total /\ RequestedEnd(range) >= total) =>
          Partial(start, total - 1, total)
     /\ (Sized /\ stream.res.status = 416) => (~Parseable(range) \/ start >= total)

\* the answer to the last call made to the object store
LastOutcome == stream.outcomes[Len(stream.outcomes)]

\* C13: when the object store answers a call of the streaming handler with
\* NotFound the response is 404, and when it answers with another error the
\* response is 500, on the Range path as on the full-object path.
C13NotFoundIs404 ==
  (stream.pc = "done" /\ stream.outcomes # <<>>) =>
    /\ LastOutcome = "NotFound" => stream.res.status = 404
    /\ LastOutcome = "Error" => stream.res.status = 500

\* the auth middleware found no valid session: it threw, or returned no user
Unauthenticated(req) == req.auth.outcome \in {"throws", "none"}

\* C14: a GET or HEAD request without a valid session is never answered 200
\* or 206, no call is made to the object store for it, and its answer is 401,
\* whether the auth middleware throws or returns no user.
C14NoBytesWithoutSession ==
  (stream.pc # "idle" /\ stream.req.method \in {"GET", "HEAD"}
     /\ Unauthenticated(stream.req)) =>
    /\ stream.calls = <<>>
    /\ stream.res.status \notin {200, 206}
    /\ stream.pc = "done" => stream.res.status = 401

\* what the claims say of the account a request names (ids, passwords and
\* account states are never changed by the handlers)
Named(req) == findFirst(users, SafeIds(req.assistant_id))

PasswordRight(req) == bcryptCompare(req.password, Named(req).password)

\* the account state that counts: the students document's for a student
StateOf(doc) ==
  IF doc.role = "student"
  THEN IF students # NoDoc /\ students.id = doc.id THEN students.account_state ELSE ""
  ELSE doc.account_state

Privileged(doc) == doc.role \in {"developer", "student"}

SubscriptionErrors == {"subscription_inactive", "subscription_expired"}

\* C15: a valid request for an unknown id is answered user_not_found;
\* otherwise with a wrong password wrong_password; otherwise with an account
\* that is not Activated account_deactivated (student_account_deactivated for
\* a student); the subscription is read only after these checks passed, and
\* the device-limit block is reached only after the subscription gate let the
\* login through.
C15ChecksInOrder ==
  \A s \in Slots :
    LET l == login[s]
        doc == Named(l.req)
    IN (l.pc # "idle" /\ Validate(l.req) = NoRes) =>
         /\ l.pc = "done" =>
              IF doc = NoDoc
              THEN Answer(l) = [status |-> 401, error |-> "user_not_found"]
              ELSE IF ~PasswordRight(l.req)
              THEN Answer(l) = [status |-> 401, error |-> "wrong_password"]
              ELSE IF StateOf(doc) # "Activated"
              THEN Answer(l) =
                     [status |-> 403,
                      error |-> IF doc.role = "student" THEN "student_account_deactivated"
                                ELSE "account_deactivated"]
              ELSE l.res.error \in {"", "device_limit_reached"} \cup SubscriptionErrors
         /\ (l.pc \in {"findSubscription", "deactivate"} \/ l.subscription # NoDoc
               \/ l.limiting # "unread") =>
              (doc # NoDoc /\ PasswordRight(l.req) /\ StateOf(doc) = "Activated")
         /\ (l.limiting # "unread" /\ l.subscription # NoDoc) =>
              (l.subscription.active \/ Privileged(doc))

\* a wrong password for an account that is not activated, with the
\* subscription expired: the answer is wrong_password
C15Witness ==
  \E s \in Slots :
    /\ login[s].pc = "done"
    /\ login[s].res.error = "wrong_password"
    /\ StateOf(Named(login[s].req)) # "Activated"
    /\ SUBSCRIPTION_ENABLED
    /\ subscription # NoDoc

\* the stored subscription is active and its expiration is not after the clock
Due(doc, now) ==
  /\ doc # NoDoc
  /\ doc.active
  /\ doc.date_of_expiration.t = "date"
  /\ now >= doc.date_of_expiration.ms

\* this step is slot s's subscription read, and finds a document
ReadsSubscription(s) ==
  /\ login[s].pc = "findSubscription"
  /\ login'[s].pc # "findSubscription"
  /\ subscription # NoDoc

\* the login is turned away for the subscription
TurnedAway(l) == l.pc = "done" /\ l.res.status = 403 /\ l.res.error \in SubscriptionErrors

C16Step ==
  \A s \in Slots :
    LET role == login[s].assistant.role
        gated == IF role \in {"developer", "student"}
                 THEN ~TurnedAway(login'[s])
                 ELSE TurnedAway(login'[s])
    IN /\ (ReadsSubscription(s) /\ Due(subscription, clock)) =>
            /\ login'[s].pc = "deactivate"
            /\ subscription' = subscription
       /\ (ReadsSubscription(s) /\ ~subscription.active) =>
            /\ gated
            /\ subscription' = subscription
       /\ (login[s].pc = "deactivate" /\ login'[s].pc # "deactivate") =>
            /\ subscription # NoDoc => /\ ~subscription'.active
                                       /\ subscription'.date_of_expiration = Undefined
            /\ gated

\* C16: with subscription gating on and a subscription document present, a
\* login with valid credentials and an activated account that reads an active
\* subscription at or after its stored expiration sets the stored subscription
\* inactive and clears its expiration; every such login that finds the
\* subscription inactive, or has just made it so, is rejected unless its role
\* is developer or student, and is not rejected for the subscription if it is.
C16ExpiryDeactivates ==
  /\ [][C16Step]_vars
  /\ [](\A s \in Slots :
          /\ login[s].pc \in {"findSubscription", "deactivate"} =>
               /\ SUBSCRIPTION_ENABLED
               /\ PasswordRight(login[s].req)
               /\ StateOf(Named(login[s].req)) = "Activated"
          /\ (login[s].pc = "done"
                /\ \E i \in 1..Len(login[s].writes) : login[s].writes[i] = "subscription") =>
               (subscription # NoDoc => ~subscription.active))

\* an assistant's login finds the subscription inactive, an earlier login
\* having deactivated it at its expiration, and is turned away
C16Witness ==
  /\ subscription # NoDoc
  /\ ~subscription.active
  /\ subscription.date_of_expiration = Undefined
  /\ \E s \in Slots :
       /\ TurnedAway(login[s])
       /\ login[s].writes = <<>>
       /\ login[s].assistant.role = "assistant"

\* the login read a subscription that was active with its expiration at or
\* before the time the handler took (the handler's copy keeps the expiration,
\* and a subscription write tells that the copy was active when read)
ReadExpired(l) ==
  /\ l.subscription # NoDoc
  /\ l.subscription.date_of_expiration.t = "date"
  /\ l.now >= l.subscription.date_of_expiration.ms
  /\ \/ l.subscription.active
     \/ \E i \in 1..Len(l.writes) : l.writes[i] = "subscription"

\* C17: a login that is neither a developer's nor a student's, against an
\* active subscription whose expiration has passed, is answered
\* subscription_expired (one of the error codes documented for the endpoint).
C17ExpiredIsAnswered ==
  \A s \in Slots :
    (login[s].pc = "done" /\ ReadExpired(login[s]) /\ ~Privileged(login[s].assistant)) =>
      Answer(login[s]) = [status |-> 403, error |-> "subscription_expired"]

\* the keys under which the bucket holds an object
Stored == {k \in DOMAIN bucket : bucket[k] # NoObject}

\* what a put of this file leaves under its key
ObjectOf(file) ==
  [ContentLength |-> Bytes(file.size),
   ContentType |-> IF file.type = "" THEN "application/octet-stream" ELSE file.type]

\* C18 as stated: every object the proxy-upload endpoint writes is written by
\* a single put under a key the key-mint endpoint returned earlier, and a
\* request carrying a key that was never minted stores nothing.
C18Original ==
  /\ Stored \subseteq minted
  /\ Len(proxy.puts) <= 1
  /\ \A i \in 1..Len(proxy.puts) : proxy.puts[i] \in minted

C18Step ==
  bucket' # bucket =>
    /\ proxy.pc = "send"
    /\ proxy.req.method = "POST"
    /\ proxy.req.file # Undefined
    /\ Truthy(proxy.req.key)
    /\ proxy.puts = <<>>
    /\ proxy'.puts = <<proxy.req.key.v>>
    /\ proxy'.pc = "done"
    /\ proxy'.res = MintRes(200, proxy.req.key)
    /\ \A k \in DOMAIN bucket :
         bucket'[k] = IF k = proxy.req.key.v THEN ObjectOf(proxy.req.file) ELSE bucket[k]

\* C18 (amended): every object the proxy-upload endpoint writes is written by
\* a single put under the non-empty key its own request carries, with the
\* request's file, whether or not the key-mint endpoint ever returned that
\* key; a request answered otherwise than with success has stored nothing.
C18SinglePutUnderRequestKey ==
  /\ [][C18Step]_vars
  /\ [](proxy.pc = "done" =>
          IF proxy.res.status = 200
          THEN proxy.puts = <<proxy.req.key.v>> /\ proxy.res.key = proxy.req.key
          ELSE proxy.puts = <<>>)

\* a request with a key that was never minted has been answered with success
\* and its file is in the bucket under that key
C18Witness ==
  /\ proxy.pc = "done"
  /\ proxy.res.status = 200
  /\ proxy.req.key.v \notin minted
  /\ bucket[proxy.req.key.v] = ObjectOf(proxy.req.file)

\* C19: once the user has cancelled an upload whose status was 'uploading',
\* nothing of it is in flight, the status is 'idle' with progress 0 and no file
\* name, and that upload never sets the row's key: onR2Upload is not called
\* with its key and the status does not become 'done', whether the cancel
\* came while the key was being minted or while the file was being sent.
C19CancelDiscards ==
  row.cancelled =>
    /\ row.pc = "idle"
    /\ row.uploadStatus = "idle"
    /\ row.uploadProgress = 0
    /\ row.uploadFileName = <<>>
    /\ row.key = Undefined \/ row.r2_key # row.key.v

\* the row holds a valid reference: a non-empty object-store key, or a
\* YouTube URL in which an 11-character id is found
ValidReference(video) == video.r2_key # <<>> \/ IdPositions(video.youtube_url) # {}

\* the entry of the submitted list that stands for the row
EntryOf(video, entry) ==
  IF Trim(video.r2_key) # <<>>
  THEN entry.video_type = "r2" /\ entry.video_id = Str(Trim(video.r2_key))
  ELSE /\ entry.video_type = "youtube"
       /\ Len(entry.video_id.v) = 11
       /\ \E i \in IdPositions(video.youtube_url) :
            entry.video_id.v = SubSeq(video.youtube_url, i, i + 10)

\* C20: handleSubmit sends the update only if every row holds a valid
\* reference (so at least one row does), and then the submitted videos list
\* has one entry per row, in row order; with a row that holds none it sends
\* nothing and records an error under that row's key
\* (video_<index>_youtube_url) or under 'videos'.
C20SubmitNeedsValidRows ==
  LET videos == form.last.videos
      data == form.last.data
      failing == {i \in 1..Len(videos) : ~ValidReference(videos[i])}
  IN form.last # NoSubmit =>
       /\ data.sent =>
            /\ Len(videos) >= 1
            /\ failing = {}
            /\ Len(data.videos) = Len(videos)
            /\ \A i \in 1..Len(videos) : EntryOf(videos[i], data.videos[i])
       /\ failing # {} =>
            /\ ~data.sent
            /\ form.errors = form.last.errors
            /\ \A i \in failing : \E e \in form.errors : e.key \in {UrlKey(i - 1), <<"videos">>}
            /\ \E i \in failing, e \in form.errors : e.key = UrlKey(i - 1)

\* an update was sent for two rows, the first with an uploaded object's key,
\* the second with a YouTube URL that has white space and text around its id
C20Witness ==
  /\ form.last.data.sent
  /\ Len(form.last.videos) = 2
  /\ form.last.data.videos[1].video_type = "r2"
  /\ form.last.data.videos[2] =
       [video_type |-> "youtube", video_id |-> Str(WatchId), video_name |-> Null]
  /\ form.last.videos[2].youtube_url # <<"https://", "youtube.com/", "embed/">> \o WatchId

\* the grade+week pairs of the session list once the update has replaced the
\* edited session's
PairsAfter(data) ==
  [i \in 1..Len(Sessions) |->
     IF Sessions[i]._id = EditedId THEN <<data.grade, data.week>>
     ELSE <<Sessions[i].grade, Sessions[i].week>>]

\* another session of the loaded list has this grade and week number
TakenByOther(grade, week) ==
  \E i \in 1..Len(Sessions) :
    /\ Sessions[i]._id # EditedId
    /\ Sessions[i].grade = grade
    /\ Sessions[i].week = week

\* C21: handleSubmit never sends an update whose grade and week number are
\* those of another session of the loaded list: the grade+week pairs stay
\* pairwise distinct after every update it sends; a submit that passes the
\* other checks with such a pair sets the general 'already exists' error.
C21NoDuplicateSent ==
  LET data == form.last.data
      weekNumber == extractWeekNumber(form.selectedWeek)
  IN form.last # NoSubmit =>
       /\ data.sent =>
            /\ ~TakenByOther(data.grade, data.week)
            /\ \A i, j \in 1..Len(Sessions) :
                 PairsAfter(data)[i] = PairsAfter(data)[j] => i = j
       /\ (weekNumber # Null /\ TakenByOther(Trim(form.selectedGrade), weekNumber.v)) =>
            /\ ~data.sent
            /\ \/ form.errors =
                    {Error(<<"general">>, "A session with this grade and week already exists")}
               \/ \E e \in form.errors : e.key # <<"general">>

\* a submit with valid rows and the grade and week of the other session was
\* answered with the general error
C21Witness ==
  /\ form.last # NoSubmit
  /\ ~form.last.data.sent
  /\ form.errors = {Error(<<"general">>, "A session with this grade and week already exists")}
  /\ TakenByOther(form.selectedGrade, 2)

\* device limiting does not apply to the logins of the account: the flag is
\* off, or the account is a developer's
Exempt ==
  \/ ~isDeviceLimitationsEnabled(envFile, processEnv)
  \/ users[UserKey].role = "developer"

C22Step ==
  \A s \in Slots :
    (login'[s] # login[s] /\ Exempt) =>
      /\ users' = users
      /\ login'[s].pc # "updateOne"
      /\ login'[s].res.error # "device_limit_reached"

\* C22: when device limiting is disabled, or the account's role is developer,
\* no step of a login answers device_limit_reached or writes the account: its
\* device list, allowed_devices and last_login stay as they were.
C22ExemptLoginWritesNothing == [][C22Step]_vars

\* a developer has logged in while device limiting is on
C22Witness ==
  \E s \in Slots :
    /\ login[s].pc = "done"
    /\ Answer(login[s]) = Ok
    /\ login[s].assistant.role = "developer"
    /\ isDeviceLimitationsEnabled(envFile, processEnv)
    /\ login[s].limiting = "on"

\* the flag as the configuration file and the environment give it now
FlagNow == FlagEnabled(Or(envFile, processEnv))

\* C23: every request acts on the value SYSTEM_DEVICE_LIMITATIONS has in the
\* configuration file when the request is handled: a device-admin request is
\* answered device_limitations_disabled exactly when the flag is off now, and
\* a login comes to the device block with the flag as it is now, also after
\* the file was changed while the server was running.
C23FlagReadOnEveryRequest ==
  /\ [](admin # NoAdmin => ((admin.res.error = "device_limitations_disabled") <=> ~FlagNow))
  /\ [][\A s \in Slots :
          (login[s].limiting = "unread" /\ login'[s].limiting # "unread") =>
            (login'[s].limiting = "on" <=> FlagNow)]_vars

\* C24: every 206 carries a range with 0 <= start <= end < totalSize and a
\* Content-Length of at least 1, and every ranged fetch sent to the object
\* store has start <= end; so a Range header whose start is greater than its
\* end is never answered 206.
C24RangeWellFormed ==
  /\ stream.res.status = 206 =>
       /\ 0 <= stream.start
       /\ stream.start <= stream.end
       /\ stream.end < stream.totalSize
       /\ stream.res.headers.ContentRange = <<"bytes", stream.start, stream.end, stream.totalSize>>
       /\ stream.res.headers.ContentLength >= 1
  /\ \A i \in 1..Len(stream.calls) :
       stream.calls[i][1] = "GetObject" /\ Len(stream.calls[i]) = 3 =>
         stream.calls[i][2] <= stream.calls[i][3]

\* C25: no step of a login changes the allowed_devices an admin PATCH has
\* stored (in these behaviours the value MaxAllowed is stored by a PATCH
\* only), also when the login read the account before the PATCH and writes
\* after it.
C25LoginKeepsAllowedDevices ==
  [][\A s \in Slots :
       (login'[s] # login[s] /\ Account.allowed_devices = Num(MaxAllowed)) =>
         users'[UserKey].device_limitations.allowed_devices = Num(MaxAllowed)]_vars

\* C26: a device that is absent from the account's stored list (in these
\* behaviours: never registered, or deleted by an admin DELETE that returned
\* success) stays absent through every step of a login from another device,
\* also a login that read the account before the DELETE.
C26DeletedDeviceStaysAbsent ==
  [][\A s \in Slots, d \in {<<"A">>, <<"B">>, <<"unknown-device">>} :
       (/\ login'[s] # login[s]
        /\ login[s].pc # "idle"
        /\ DeviceOf(login[s].req) # d
        /\ d \notin DeviceIds(Account.devices)) =>
         d \notin DeviceIds(users'[UserKey].device_limitations.devices)]_vars

\* C27: with device limiting on, no step of a login takes a device out of the
\* account's stored list: the devices that successful logins registered are
\* all still stored when the logins in flight have completed, unless an admin
\* deleted them, also when two logins to the account overlap.
C27SuccessfulLoginStaysRegistered ==
  [][\A s \in Slots :
       login'[s] # login[s] =>
         DeviceIds(Account.devices) \subseteq
           DeviceIds(users'[UserKey].device_limitations.devices)]_vars

\* C28: starting from device lists without two records of one device_id, no
\* account's list ever holds two records with the same device_id, whatever
\* the interleaving of logins (those without a device_id all present
\* 'unknown-device'), allowed_devices PATCHes and device DELETEs.
C28NoDuplicateDevice ==
  \A i, j \in 1..Len(Account.devices) :
    Account.devices[i].device_id = Account.devices[j].device_id => i = j

\* a login without a device_id that read the empty list has written over
\* the record that an overlapping login without a device_id had stored: the
\* list holds the one record of 'unknown-device'
C28Witness ==
  \E s \in Slots :
    /\ login[s].pc = "done"
    /\ Answer(login[s]) = Ok
    /\ login[s].req.device_id = Undefined
    /\ login[s].assistant.device_limitations.devices = <<>>
    /\ DeviceIds(login[s].overwritten.devices) = {<<"unknown-device">>}
    /\ DeviceIds(Account.devices) = {<<"unknown-device">>}
    /\ Len(Account.devices) = 1

\* C29: a device-admin request, to the students or the assistants endpoint,
\* from a requester that is not an authenticated admin, developer or
\* assistant (a student, no session, a session check that fails) is answered
\* with an error and no rows, and leaves every user document as it was; so
\* device data is read or changed only for those three roles.
C29Step ==
  (admin' # admin /\ admin' # NoAdmin) =>
    LET auth == admin'.req.auth
        staff == auth.outcome = "user" /\ auth.role \in {"admin", "developer", "assistant"}
    IN /\ ~staff => /\ admin'.res.status >= 400
                    /\ admin'.res.error # ""
                    /\ admin'.res.data = {}
                    /\ users' = users
       /\ (users' # users \/ admin'.res.data # {}) => staff

C29OnlyStaffReachDevices == [][C29Step]_vars

\* with device limiting on, a student's DELETE of a registered device has
\* been answered forbidden and the device is still registered
C29Witness ==
  /\ admin # NoAdmin
  /\ admin.req.auth = [outcome |-> "user", role |-> "student"]
  /\ admin.req.method = "DELETE"
  /\ admin.res = AdminRes(403, "forbidden")
  /\ <<"A">> \in DeviceIds(Account.devices)

\* C30: between two changes of r2Key the player calls onComplete at most
\* once, and only on a timeupdate at which currentTime is at least 90% of the
\* duration; the once-only flag goes back to false only when r2Key changes.
C30Step ==
  /\ player'.calls > player.calls =>
       /\ player.calls = 0
       /\ player'.r2Key = player.r2Key
       /\ player'.duration # 0
       /\ player'.currentTime * 100 >= 90 * player'.duration
  /\ (player.hasMarkedComplete /\ ~player'.hasMarkedComplete) =>
       player'.r2Key # player.r2Key

C30OnceAtNinetyPercent == [](player.calls <= 1) /\ [][C30Step]_vars

\* onComplete was called for one video and, after r2Key changed, once more
\* for the new one, at the first second at or above 90%; the flag is set
C30Witness ==
  /\ player.completed = {Str(join(KeyA)), Str(join(KeyB))}
  /\ player.calls = 1
  /\ player.hasMarkedComplete
  /\ player.currentTime * 100 >= 90 * player.duration
  /\ (player.currentTime - 1) * 100 < 90 * player.duration

====
